---- MODULE Spec2Model ----
(***************************************************************************)
(* Vehicle_security: the hardware authentication coordinator               *)
(* (hardware/authentication_service.py), the face matcher                  *)
(* (hardware/facial_recognition.py) and the relay controller               *)
(* (hardware/relay_control.py), as a state machine.                        *)
(*                                                                         *)
(* Every call of authenticate_driver / remote_control_engine is a thread   *)
(* with a program counter; each step is one statement group of the source  *)
(* that touches shared state (the lockout map, the relay, the data store). *)
(* Time is in seconds. Confidence and tolerance are scaled by 10000, so    *)
(* that max(0, 1 - d/10000) is the integer max(0, 10000 - d).              *)
(***************************************************************************)
EXTENDS Integers, FiniteSets, Sequences, TLC

\* ------------------------------------------------------------ bounds
MaxTime == 30
MaxCalls == 3
MaxConcurrentTime == 30
MaxConcurrentCalls == 2
MaxApiTime == 30
MaxApiCalls == 2
MaxDashboardTime == 30
MaxDashboardCalls == 2
MaxRelayCalls == 6
MaxGsmTime == 30
MaxGsmCalls == 2
MaxSmsLength == 300
MaxEnrollmentCalls == 3
MaxDistance == 12000
DistanceStep == 1000
MaxJsonTime == 30
MaxJsonCalls == 2
MaxExpiryTime == 90
MaxExpiryCalls == 3
MaxDeletionCalls == 2
MaxMatchCalls == 1

\* ---------------------------------------------------- program constants
AUTHENTICATION_TIMEOUT == 30
ConfidenceScale == 10000
EncodingSide == 200
Uint8 == 256

\* -------------------------------------------------------- the universe
Threads == {1, 2}
SeqThreads == {1}
Vehicles == {1, 2}
Users == {1, 2}
Actors == {1}
NoUser == 0
NoVehicle == 0
NoEntry == -1
TickSteps == {29, 30}
Tolerances == {0, 6000}

\* A vehicle id as a request carries it: the JSON number n or the JSON string
\* "n". Vehicle.objects.get(id=...) resolves both to the same row; a Python
\* dict keeps them as different keys.
RequestIds == {<<"int", 1>>, <<"int", 2>>, <<"int", 3>>}

Resolve(rid) == IF rid[2] \in Vehicles THEN rid[2] ELSE NoVehicle

\* The ids of vehicle 1 as json.loads yields them from {"vehicle_id": 1} and
\* from {"vehicle_id": "1"}, and the keys the lockout dictionary can hold.
JsonIds == {<<"int", 1>>, <<"str", 1>>}
LockoutKeys == RequestIds \cup JsonIds

\* An image: none, an array without a face, or an array whose largest face
\* yields a uniform encoding of pixel value px.
NoImage == [kind |-> "none", px |-> 0]
BlankImage == [kind |-> "blank", px |-> 0]
FaceImage(px) == [kind |-> "face", px |-> px]
ProbePixels == {0, 60}
Images == {BlankImage} \cup {FaceImage(px) : px \in ProbePixels}

\* A stored encoding: a side x side uint8 array, uniform of value px.
NoEncoding == [side |-> 0, px |-> 0]
Encoding(side, px) == [side |-> side, px |-> px]

VARIABLES
    now,                \* datetime.now()
    recognition_tolerance,
    relay_class,        \* "RelayController" | "SimulatedRelayController"
    gpio_initialized,
    engine_state,       \* RelayController.engine_state
    last_failed_auth,   \* HardwareAuthenticationService.last_failed_auth
    engine_enabled,     \* Vehicle.engine_enabled, per row
    owner_phone,        \* vehicle.owner.phone_number is non-empty
    users,              \* User rows
    encodings,          \* encodings_dir/user_<id>.pkl
    auth_logs,          \* AuthenticationLog rows
    events,             \* VehicleEvent rows
    alerts,             \* Alert rows
    sms_sent,           \* messages handed to gsm.send_sms
    calls,              \* calls started so far
    pc,
    frame,              \* each thread's arguments and locals
    result,             \* each thread's returned dictionary
    http,               \* each thread's HTTP request and the response to it
    simulated,          \* HardwareAuthenticationService.simulated
    numerics            \* two raw distances and the confidences computed from them

hw == <<recognition_tolerance, relay_class, gpio_initialized, simulated>>
db == <<engine_enabled, owner_phone, users, encodings, auth_logs, events, alerts>>
vars == <<now, hw, engine_state, last_failed_auth, db, sms_sent, calls, pc, frame, result, http,
          numerics>>

\* ------------------------------------------------------------ helpers
NoResult == [none |-> TRUE]
NoRequest == [none |-> TRUE]
NoResponse == [none |-> TRUE]
NoHttp == [request |-> NoRequest, response |-> NoResponse]
NoNumerics == [none |-> TRUE]
Raised(what) == [raised |-> what]

IdleFrame ==
    [op |-> "none", call |-> 0, vehicle_id |-> <<"int", 0>>, vehicle |-> NoVehicle,
     image |-> NoImage, capture_from_camera |-> FALSE, enable |-> FALSE, user |-> NoUser,
     current_location |-> FALSE, is_authenticated |-> FALSE, user_id |-> NoUser,
     confidence |-> 0, face_image |-> FALSE, authenticated_user |-> NoUser,
     relay_returned |-> "none", sms_returned |-> "none", transmitted |-> NoEntry]

Goto(t, label) == pc' = [pc EXCEPT ![t] = label]
Finish(t, res) == /\ pc' = [pc EXCEPT ![t] = "done"]
                  /\ result' = [result EXCEPT ![t] = res]

\* ------------------------------------------------------- face matcher
\* np.linalg.norm(face_encoding - encoding) of two uniform uint8 arrays of the
\* same side: the elementwise difference wraps modulo 256.
Distance(probe_px, enc) == enc.side * ((probe_px - enc.px) % Uint8)

NormalizedConfidence_Unclamped(best) ==
    IF best = NoEntry THEN 0 ELSE ConfidenceScale - best

\* max(0, 1 - best_confidence / 10000); best_confidence = inf gives 0.
NormalizedConfidence(best) ==
    IF best = NoEntry THEN 0
    ELSE IF ConfidenceScale - best > 0 THEN ConfidenceScale - best ELSE 0

\* load_authorized_encodings: the users assigned to the vehicle and flagged
\* authorized driver whose encoding file exists.
LoadAuthorizedEncodings_IgnoresFlag(v) ==
    {u \in Users : /\ users[u].exists
                   /\ users[u].vehicle = v
                   /\ encodings[u] # NoEncoding}

LoadAuthorizedEncodings(v) ==
    {u \in Users : /\ users[u].exists
                   /\ users[u].vehicle = v
                   /\ users[u].is_authorized_driver
                   /\ encodings[u] # NoEncoding}

\* User.Meta.ordering = ['-created_at']: the query yields the newest user
\* (the highest id) first.
RECURSIVE QueryOrder(_)
QueryOrder(S) ==
    IF S = {} THEN <<>>
    ELSE LET u == CHOOSE x \in S : \A y \in S : y <= x
         IN <<u>> \o QueryOrder(S \ {u})

RECURSIVE BestMatch_LastOnTies(_, _, _)
BestMatch_LastOnTies(order, probe_px, best) ==
    IF order = <<>> THEN best
    ELSE LET u == Head(order)
             enc == encodings[u]
             diff == Distance(probe_px, enc)
             next == IF enc.side # EncodingSide THEN best
                     ELSE IF best[2] = NoEntry \/ diff <= best[2] THEN <<u, diff>>
                     ELSE best
         IN BestMatch_LastOnTies(Tail(order), probe_px, next)

\* The comparison loop: best = <<best_match_user, best_confidence>>, NoEntry
\* standing for float('inf').
RECURSIVE BestMatch(_, _, _)
BestMatch(order, probe_px, best) ==
    IF order = <<>> THEN best
    ELSE LET u == Head(order)
             enc == encodings[u]
             diff == Distance(probe_px, enc)
             next == IF enc.side # EncodingSide THEN best
                     ELSE IF best[2] = NoEntry \/ diff < best[2] THEN <<u, diff>>
                     ELSE best
         IN BestMatch(Tail(order), probe_px, next)

MeetsThreshold(confidence) == confidence >= recognition_tolerance

\* authenticate_face: <<is_authenticated, user_id, confidence, face_image>>
AuthenticateFace_NoEmptyCheck(image, v) ==
    IF image.kind # "face" THEN <<FALSE, NoUser, 0, FALSE>>
    ELSE LET best == BestMatch(QueryOrder(LoadAuthorizedEncodings(v)), image.px,
                               <<NoUser, NoEntry>>)
             confidence == NormalizedConfidence(best[2])
         IN <<MeetsThreshold(confidence), best[1], confidence, TRUE>>

AuthenticateFace_MatchesBlank(image, v) ==
    IF image.kind = "none" THEN <<FALSE, NoUser, 0, FALSE>>
    ELSE IF LoadAuthorizedEncodings(v) = {} THEN <<FALSE, NoUser, 0, TRUE>>
    ELSE LET best == BestMatch(QueryOrder(LoadAuthorizedEncodings(v)), image.px,
                               <<NoUser, NoEntry>>)
             confidence == NormalizedConfidence(best[2])
         IN <<MeetsThreshold(confidence), best[1], confidence, image.kind = "face">>

AuthenticateFace(image, v) ==
    IF image.kind # "face" THEN <<FALSE, NoUser, 0, FALSE>>
    ELSE IF LoadAuthorizedEncodings(v) = {} THEN <<FALSE, NoUser, 0, TRUE>>
    ELSE LET best == BestMatch(QueryOrder(LoadAuthorizedEncodings(v)), image.px,
                               <<NoUser, NoEntry>>)
             confidence == NormalizedConfidence(best[2])
         IN <<MeetsThreshold(confidence), best[1], confidence, TRUE>>

\* -------------------------------------------------------------- lockout
IsLockedOut_Inverted(vehicle_id) ==
    /\ last_failed_auth[vehicle_id] # NoEntry
    /\ now - last_failed_auth[vehicle_id] > AUTHENTICATION_TIMEOUT

IsLockedOut_BoundaryIncluded(vehicle_id) ==
    /\ last_failed_auth[vehicle_id] # NoEntry
    /\ now - last_failed_auth[vehicle_id] <= AUTHENTICATION_TIMEOUT

IsLockedOut(vehicle_id) ==
    /\ last_failed_auth[vehicle_id] # NoEntry
    /\ now - last_failed_auth[vehicle_id] < AUTHENTICATION_TIMEOUT

SetLockout_EveryVehicle(vehicle_id) == [k \in DOMAIN last_failed_auth |-> now]

SetLockout(vehicle_id) == [last_failed_auth EXCEPT ![vehicle_id] = now]

ClearLockout_Keeps(vehicle_id) == last_failed_auth

ClearLockout(vehicle_id) == [last_failed_auth EXCEPT ![vehicle_id] = NoEntry]

\* ---------------------------------------------------------------- relay
\* Whether GPIO.output can raise: only a RelayController driving real GPIO
\* calls it; the simulated controller overrides both methods.
RelayOutcomes ==
    IF relay_class = "RelayController" /\ gpio_initialized THEN {TRUE, FALSE} ELSE {TRUE}

\* Whether a command reaches the pin: GPIO.output is called only by the
\* methods of RelayController, and only `if self.gpio_initialized`.
DrivesHardware == relay_class = "RelayController" /\ gpio_initialized

\* enable_engine / disable_engine: engine_state is assigned only when
\* GPIO.output did not raise.
Actuate_SetsOnFailure(commanded, ok) == commanded

Actuate(commanded, ok) == IF ok THEN commanded ELSE engine_state

\* ------------------------------------------------------ messaging gateway
\* message[:160] of the format_*_sms functions.
SmsLimit == 160

Truncate(length) == IF length > SmsLimit THEN SmsLimit ELSE length

\* Lengths of vehicle.registration_number (at most 20 characters) and of
\* user.get_full_name() (first and last name, at most 150 characters each).
RegistrationLength(v) == IF v = 1 THEN 7 ELSE 20
FullNameLength(u) == 301

\* format_unauthorized_access_sms: 128 characters of text, timestamp and
\* coordinates around the registration number.
UnauthorizedSmsLength(v) == Truncate(128 + RegistrationLength(v))

\* format_engine_status_sms: 30 characters of text around the registration
\* number, the status word and the actor's name.
EngineStatusSmsLength(v, enable, u) ==
    Truncate(30 + RegistrationLength(v) + (IF enable THEN 7 ELSE 8) + FullNameLength(u))

\* How a send_sms call can go: the text written and acknowledged; written
\* but not acknowledged; or the transport not reached. The simulated module
\* always succeeds.
SendOutcomes == IF simulated THEN {"sent"} ELSE {"sent", "no_ack", "unreachable"}

\* send_sms: the message is handed over (sms_sent), the body written to the
\* transport is the message as passed, and the boolean is returned to the
\* caller.
SmsReturned(outcome) == IF outcome = "sent" THEN "True" ELSE "False"
Transmitted(outcome, length) == IF outcome = "unreachable" THEN NoEntry ELSE length

SendSms(t, kind, length) ==
    \E outcome \in SendOutcomes :
        /\ sms_sent' = sms_sent \cup {[call |-> frame[t].call, kind |-> kind,
                                        length |-> length]}
        /\ frame' = [frame EXCEPT ![t].sms_returned = SmsReturned(outcome),
                                  ![t].transmitted = Transmitted(outcome, length)]

\* ------------------------------------------------------------- Init
\* get_relay_controller: a RelayController on real GPIO, or the simulated one
\* (whose _init_gpio sets gpio_initialized too).
RealRelay == <<"RelayController", TRUE, FALSE>>
SimulatedRelay == <<"SimulatedRelayController", TRUE, TRUE>>

\* simulated=False without RPi.GPIO (ImportError): the simulated controller;
\* with RPi.GPIO importable but GPIO.setup raising: a RelayController whose
\* gpio_initialized stays False.
FallbackRelay == <<"SimulatedRelayController", TRUE, FALSE>>
DegradedRelay == <<"RelayController", FALSE, FALSE>>
RelayModes == {RealRelay, SimulatedRelay, FallbackRelay, DegradedRelay}

InitWith(mode, tolerances) ==
    /\ now = 0
    /\ recognition_tolerance \in tolerances
    /\ relay_class = mode[1] /\ gpio_initialized = mode[2] /\ simulated = mode[3]
    /\ engine_state = FALSE
    /\ last_failed_auth = [k \in LockoutKeys |-> NoEntry]
    /\ engine_enabled = [v \in Vehicles |-> TRUE]
    /\ owner_phone = [v \in Vehicles |-> v = 1]
    /\ users = [u \in Users |-> [exists |-> TRUE, vehicle |-> u, is_authorized_driver |-> TRUE]]
    /\ encodings \in {[u \in Users |-> IF u = 1 THEN Encoding(EncodingSide, 0) ELSE e] :
                        e \in {NoEncoding, Encoding(100, 0)}}
    /\ auth_logs = {} /\ events = {} /\ alerts = {} /\ sms_sent = {}
    /\ calls = 0
    /\ pc = [t \in Threads |-> "idle"]
    /\ frame = [t \in Threads |-> IdleFrame]
    /\ result = [t \in Threads |-> NoResult]
    /\ http = [t \in Threads |-> NoHttp]

\* The service on a Raspberry Pi: get_hardware_service(simulated=False) with
\* RPi.GPIO importable. Every run of the simulated controller is the run of
\* this one in which GPIO.output never raises.
Init == InitWith(RealRelay, Tolerances) /\ numerics = NoNumerics

\* The API surface constructs the service with simulated=True.
InitSimulated ==
    InitWith(SimulatedRelay, {6000}) /\ encodings[2] = NoEncoding /\ numerics = NoNumerics

\* ------------------------------------------------------------- clock
Tick(limit) ==
    /\ \E d \in TickSteps : now + d <= limit /\ now' = now + d
    /\ UNCHANGED <<hw, http, numerics, engine_state, last_failed_auth, db, sms_sent, calls, pc, frame, result>>

\* ------------------------------------------------- authenticate_driver
CallAuthenticateDriver(t, limit) ==
    /\ pc[t] = "idle"
    /\ calls < limit
    /\ \E rid \in RequestIds, image \in Images \cup {NoImage}, capture \in BOOLEAN :
          frame' = [frame EXCEPT ![t] = [IdleFrame EXCEPT !.op = "authenticate_driver",
                        !.call = calls + 1, !.vehicle_id = rid, !.image = image,
                        !.capture_from_camera = capture]]
    /\ calls' = calls + 1
    /\ Goto(t, "a_get_vehicle")
    /\ UNCHANGED <<now, hw, http, numerics, engine_state, last_failed_auth, db, sms_sent, result>>

AuthGetVehicle_DisablesWhenNotFound(t) ==
    /\ pc[t] = "a_get_vehicle"
    /\ IF Resolve(frame[t].vehicle_id) = NoVehicle
       THEN /\ Finish(t, [success |-> FALSE, message |-> "Vehicle not found"])
            /\ engine_state' = FALSE
            /\ UNCHANGED frame
       ELSE /\ frame' = [frame EXCEPT ![t].vehicle = Resolve(frame[t].vehicle_id)]
            /\ Goto(t, "a_lockout")
            /\ UNCHANGED <<result, engine_state>>
    /\ UNCHANGED <<now, hw, http, numerics, last_failed_auth, db, sms_sent, calls>>

AuthGetVehicle(t) ==
    /\ pc[t] = "a_get_vehicle"
    /\ IF Resolve(frame[t].vehicle_id) = NoVehicle
       THEN /\ Finish(t, [success |-> FALSE, message |-> "Vehicle not found"])
            /\ UNCHANGED frame
       ELSE /\ frame' = [frame EXCEPT ![t].vehicle = Resolve(frame[t].vehicle_id)]
            /\ Goto(t, "a_lockout")
            /\ UNCHANGED result
    /\ UNCHANGED <<now, hw, http, numerics, engine_state, last_failed_auth, db, sms_sent, calls>>

AuthLockoutCheck_RestartsClock(t) ==
    /\ pc[t] = "a_lockout"
    /\ IF IsLockedOut(frame[t].vehicle_id)
       THEN /\ Finish(t, [success |-> FALSE,
                          message |-> "Authentication temporarily locked. Please wait.",
                          locked_until |-> last_failed_auth[frame[t].vehicle_id]])
            /\ last_failed_auth' = SetLockout(frame[t].vehicle_id)
       ELSE Goto(t, "a_location") /\ UNCHANGED <<result, last_failed_auth>>
    /\ UNCHANGED <<now, hw, http, numerics, engine_state, db, sms_sent, calls, frame>>

AuthLockoutCheck(t) ==
    /\ pc[t] = "a_lockout"
    /\ IF IsLockedOut(frame[t].vehicle_id)
       THEN Finish(t, [success |-> FALSE,
                       message |-> "Authentication temporarily locked. Please wait.",
                       locked_until |-> last_failed_auth[frame[t].vehicle_id]])
       ELSE Goto(t, "a_location") /\ UNCHANGED result
    /\ UNCHANGED <<now, hw, http, numerics, engine_state, last_failed_auth, db, sms_sent, calls, frame>>

AuthLocation(t) ==
    /\ pc[t] = "a_location"
    /\ \E fix \in BOOLEAN : frame' = [frame EXCEPT ![t].current_location = fix]
    /\ Goto(t, "a_image")
    /\ UNCHANGED <<now, hw, http, numerics, engine_state, last_failed_auth, db, sms_sent, calls, result>>

AuthImage_MatchesWithoutImage(t) ==
    /\ pc[t] = "a_image"
    /\ LET f == frame[t] IN
       IF f.capture_from_camera /\ f.image # NoImage
       THEN /\ Finish(t, Raised("ValueError"))
            /\ UNCHANGED frame
       ELSE IF f.capture_from_camera
       THEN \E shot \in Images \cup {NoImage} :
              /\ frame' = [frame EXCEPT ![t].image = shot]
              /\ Goto(t, "a_match")
              /\ UNCHANGED result
       ELSE IF f.image = NoImage
       THEN /\ Finish(t, [success |-> FALSE, message |-> "No image provided"])
            /\ UNCHANGED frame
       ELSE /\ Goto(t, "a_match")
            /\ UNCHANGED <<frame, result>>
    /\ UNCHANGED <<now, hw, http, numerics, engine_state, last_failed_auth, db, sms_sent, calls>>

AuthImage_RequiresLocation(t) ==
    /\ pc[t] = "a_image"
    /\ LET f == frame[t] IN
       IF ~f.current_location
       THEN /\ Finish(t, [success |-> FALSE, message |-> "Location unavailable"])
            /\ UNCHANGED frame
       ELSE IF f.capture_from_camera /\ f.image # NoImage
       THEN /\ Finish(t, Raised("ValueError"))
            /\ UNCHANGED frame
       ELSE IF f.capture_from_camera
       THEN \E shot \in Images \cup {NoImage} :
              IF shot = NoImage
              THEN /\ Finish(t, [success |-> FALSE,
                                 message |-> "Failed to capture image from camera"])
                   /\ UNCHANGED frame
              ELSE /\ frame' = [frame EXCEPT ![t].image = shot]
                   /\ Goto(t, "a_match")
                   /\ UNCHANGED result
       ELSE IF f.image = NoImage
       THEN /\ Finish(t, [success |-> FALSE, message |-> "No image provided"])
            /\ UNCHANGED frame
       ELSE /\ Goto(t, "a_match")
            /\ UNCHANGED <<frame, result>>
    /\ UNCHANGED <<now, hw, http, numerics, engine_state, last_failed_auth, db, sms_sent, calls>>

AuthImage(t) ==
    /\ pc[t] = "a_image"
    /\ LET f == frame[t] IN
       IF f.capture_from_camera /\ f.image # NoImage
       THEN \* `not image` on a numpy array raises ValueError
            /\ Finish(t, Raised("ValueError"))
            /\ UNCHANGED frame
       ELSE IF f.capture_from_camera
       THEN \E shot \in Images \cup {NoImage} :
              IF shot = NoImage
              THEN /\ Finish(t, [success |-> FALSE,
                                 message |-> "Failed to capture image from camera"])
                   /\ UNCHANGED frame
              ELSE /\ frame' = [frame EXCEPT ![t].image = shot]
                   /\ Goto(t, "a_match")
                   /\ UNCHANGED result
       ELSE IF f.image = NoImage
       THEN /\ Finish(t, [success |-> FALSE, message |-> "No image provided"])
            /\ UNCHANGED frame
       ELSE /\ Goto(t, "a_match")
            /\ UNCHANGED <<frame, result>>
    /\ UNCHANGED <<now, hw, http, numerics, engine_state, last_failed_auth, db, sms_sent, calls>>

AuthMatch(t) ==
    /\ pc[t] = "a_match"
    /\ LET m == AuthenticateFace(frame[t].image, Resolve(frame[t].vehicle_id)) IN
       \* image and capture_from_camera are not read after this statement
       frame' = [frame EXCEPT ![t].is_authenticated = m[1], ![t].user_id = m[2],
                              ![t].confidence = m[3], ![t].face_image = m[4],
                              ![t].image = NoImage, ![t].capture_from_camera = FALSE]
    /\ Goto(t, "a_user")
    /\ UNCHANGED <<now, hw, http, numerics, engine_state, last_failed_auth, db, sms_sent, calls, result>>

AuthGetUser(t) ==
    /\ pc[t] = "a_user"
    /\ LET f == frame[t] IN
       IF f.is_authenticated /\ f.user_id # NoUser
       THEN IF users[f.user_id].exists
            THEN frame' = [frame EXCEPT ![t].authenticated_user = f.user_id]
            ELSE frame' = [frame EXCEPT ![t].is_authenticated = FALSE]
       ELSE UNCHANGED frame
    /\ Goto(t, "a_log")
    /\ UNCHANGED <<now, hw, http, numerics, engine_state, last_failed_auth, db, sms_sent, calls, result>>

\* The row AuthenticationLog.objects.create inserts; id is the auto-increment
\* primary key, call the call that created it.
AuthLogRecord(f) ==
    [id |-> Cardinality(auth_logs) + 1, call |-> f.call, vehicle |-> f.vehicle, user |-> f.authenticated_user,
     status |-> IF f.is_authenticated THEN "success" ELSE "unauthorized",
     location |-> f.current_location]

AuthCreateLog_OnlyOnFailure(t) ==
    /\ pc[t] = "a_log"
    /\ auth_logs' = IF frame[t].is_authenticated THEN auth_logs
                    ELSE auth_logs \cup {AuthLogRecord(frame[t])}
    /\ Goto(t, "a_relay")
    /\ UNCHANGED <<now, hw, http, numerics, engine_state, last_failed_auth, engine_enabled, owner_phone,
                   users, encodings, events, alerts, sms_sent, calls, frame, result>>

\* A row that references a user deleted since the lookup violates the foreign
\* key: the insert raises IntegrityError.
AuthCreateLog(t) ==
    /\ pc[t] = "a_log"
    /\ IF frame[t].authenticated_user # NoUser /\ ~users[frame[t].authenticated_user].exists
       THEN /\ Finish(t, Raised("IntegrityError"))
            /\ UNCHANGED auth_logs
       ELSE /\ auth_logs' = auth_logs \cup {AuthLogRecord(frame[t])}
            /\ Goto(t, "a_relay")
            /\ UNCHANGED result
    /\ UNCHANGED <<now, hw, http, numerics, engine_state, last_failed_auth, engine_enabled, owner_phone,
                   users, encodings, events, alerts, sms_sent, calls, frame>>

AuthRelay(t) ==
    /\ pc[t] = "a_relay"
    /\ \E ok \in RelayOutcomes :
          /\ engine_state' = Actuate(frame[t].is_authenticated, ok)
          /\ frame' = [frame EXCEPT ![t].relay_returned = IF ok THEN "True" ELSE "False"]
    /\ Goto(t, "a_save")
    /\ UNCHANGED <<now, hw, http, numerics, last_failed_auth, db, sms_sent, calls, result>>

AuthSaveVehicle(t) ==
    /\ pc[t] = "a_save"
    /\ engine_enabled' = [engine_enabled EXCEPT ![frame[t].vehicle] = frame[t].is_authenticated]
    /\ Goto(t, IF frame[t].is_authenticated THEN "a_event_success" ELSE "a_set_lockout")
    /\ UNCHANGED <<now, hw, http, numerics, engine_state, last_failed_auth, owner_phone, users, encodings,
                   auth_logs, events, alerts, sms_sent, calls, frame, result>>

AuthEventSuccess(t) ==
    /\ pc[t] = "a_event_success"
    /\ IF frame[t].authenticated_user = NoUser
       THEN \* authenticated_user.get_full_name() on None
            /\ Finish(t, Raised("AttributeError"))
            /\ UNCHANGED events
       ELSE IF ~users[frame[t].authenticated_user].exists
       THEN /\ Finish(t, Raised("IntegrityError"))
            /\ UNCHANGED events
       ELSE /\ events' = events \cup {[id |-> Cardinality(events) + 1, call |-> frame[t].call,
                                       event_type |-> "auth_success",
                                       user |-> frame[t].authenticated_user]}
            /\ Goto(t, "a_clear_lockout")
            /\ UNCHANGED result
    /\ UNCHANGED <<now, hw, http, numerics, engine_state, last_failed_auth, engine_enabled, owner_phone,
                   users, encodings, auth_logs, alerts, sms_sent, calls, frame>>

AuthClearLockout(t) ==
    /\ pc[t] = "a_clear_lockout"
    /\ last_failed_auth' = ClearLockout(frame[t].vehicle_id)
    /\ Finish(t, [success |-> TRUE, message |-> "Welcome",
                  user |-> frame[t].authenticated_user,
                  confidence |-> frame[t].confidence, engine_enabled |-> TRUE])
    /\ UNCHANGED <<now, hw, http, numerics, engine_state, db, sms_sent, calls, frame>>

AuthSetLockout(t) ==
    /\ pc[t] = "a_set_lockout"
    /\ last_failed_auth' = SetLockout(frame[t].vehicle_id)
    /\ Goto(t, "a_event_unauthorized")
    /\ UNCHANGED <<now, hw, http, numerics, engine_state, db, sms_sent, calls, frame, result>>

AuthEventUnauthorized(t) ==
    /\ pc[t] = "a_event_unauthorized"
    /\ events' = events \cup {[id |-> Cardinality(events) + 1, call |-> frame[t].call,
                               event_type |-> "unauthorized_access", user |-> NoUser]}
    /\ Goto(t, "a_alert")
    /\ UNCHANGED <<now, hw, http, numerics, engine_state, last_failed_auth, engine_enabled, owner_phone,
                   users, encodings, auth_logs, alerts, sms_sent, calls, frame, result>>

AuthCreateAlert(t) ==
    /\ pc[t] = "a_alert"
    /\ alerts' = alerts \cup {[id |-> Cardinality(alerts) + 1, call |-> frame[t].call,
                               alert_type |-> "unauthorized_access"]}
    /\ Goto(t, "a_sms")
    /\ UNCHANGED <<now, hw, http, numerics, engine_state, last_failed_auth, engine_enabled, owner_phone,
                   users, encodings, auth_logs, events, sms_sent, calls, frame, result>>

AuthSendSms_IgnoresLocation(t) ==
    /\ pc[t] = "a_sms"
    /\ IF owner_phone[frame[t].vehicle]
       THEN SendSms(t, "unauthorized_access", UnauthorizedSmsLength(frame[t].vehicle))
       ELSE UNCHANGED <<sms_sent, frame>>
    /\ Finish(t, [success |-> FALSE,
                  message |-> "Authentication failed. Unauthorized access detected.",
                  confidence |-> frame[t].confidence, engine_enabled |-> FALSE,
                  alert_created |-> TRUE])
    /\ UNCHANGED <<now, hw, http, numerics, engine_state, last_failed_auth, db, calls>>

AuthSendSms_RaisesOnSendFailure(t) ==
    /\ pc[t] = "a_sms"
    /\ IF frame[t].current_location /\ owner_phone[frame[t].vehicle]
       THEN /\ SendSms(t, "unauthorized_access", UnauthorizedSmsLength(frame[t].vehicle))
            /\ IF frame'[t].sms_returned = "False"
               THEN Finish(t, Raised("SerialException"))
               ELSE Finish(t, [success |-> FALSE,
                               message |-> "Authentication failed. Unauthorized access detected.",
                               confidence |-> frame[t].confidence, engine_enabled |-> FALSE,
                               alert_created |-> TRUE])
       ELSE /\ UNCHANGED <<sms_sent, frame>>
            /\ Finish(t, [success |-> FALSE,
                          message |-> "Authentication failed. Unauthorized access detected.",
                          confidence |-> frame[t].confidence, engine_enabled |-> FALSE,
                          alert_created |-> TRUE])
    /\ UNCHANGED <<now, hw, http, numerics, engine_state, last_failed_auth, db, calls>>

AuthSendSms(t) ==
    /\ pc[t] = "a_sms"
    /\ IF frame[t].current_location /\ owner_phone[frame[t].vehicle]
       THEN SendSms(t, "unauthorized_access", UnauthorizedSmsLength(frame[t].vehicle))
       ELSE UNCHANGED <<sms_sent, frame>>
    /\ Finish(t, [success |-> FALSE,
                  message |-> "Authentication failed. Unauthorized access detected.",
                  confidence |-> frame[t].confidence, engine_enabled |-> FALSE,
                  alert_created |-> TRUE])
    /\ UNCHANGED <<now, hw, http, numerics, engine_state, last_failed_auth, db, calls>>

\* ----------------------------------------------- remote_control_engine
CallRemoteControlEngine(t, limit) ==
    /\ pc[t] = "idle"
    /\ calls < limit
    /\ \E rid \in RequestIds, enable \in BOOLEAN, user \in Actors :
          frame' = [frame EXCEPT ![t] = [IdleFrame EXCEPT !.op = "remote_control_engine",
                        !.call = calls + 1, !.vehicle_id = rid, !.enable = enable,
                        !.user = user]]
    /\ calls' = calls + 1
    /\ Goto(t, "r_get_vehicle")
    /\ UNCHANGED <<now, hw, http, numerics, engine_state, last_failed_auth, db, sms_sent, result>>

RemoteGetVehicle_ChecksLockout(t) ==
    /\ pc[t] = "r_get_vehicle"
    /\ IF Resolve(frame[t].vehicle_id) = NoVehicle
       THEN /\ Finish(t, [success |-> FALSE, message |-> "Vehicle not found"])
            /\ UNCHANGED frame
       ELSE IF IsLockedOut(frame[t].vehicle_id)
       THEN /\ Finish(t, [success |-> FALSE,
                          message |-> "Authentication temporarily locked. Please wait."])
            /\ UNCHANGED frame
       ELSE /\ frame' = [frame EXCEPT ![t].vehicle = Resolve(frame[t].vehicle_id)]
            /\ Goto(t, "r_relay")
            /\ UNCHANGED result
    /\ UNCHANGED <<now, hw, http, numerics, engine_state, last_failed_auth, db, sms_sent, calls>>

RemoteGetVehicle(t) ==
    /\ pc[t] = "r_get_vehicle"
    /\ IF Resolve(frame[t].vehicle_id) = NoVehicle
       THEN /\ Finish(t, [success |-> FALSE, message |-> "Vehicle not found"])
            /\ UNCHANGED frame
       ELSE /\ frame' = [frame EXCEPT ![t].vehicle = Resolve(frame[t].vehicle_id)]
            /\ Goto(t, "r_relay")
            /\ UNCHANGED result
    /\ UNCHANGED <<now, hw, http, numerics, engine_state, last_failed_auth, db, sms_sent, calls>>

RemoteRelay(t) ==
    /\ pc[t] = "r_relay"
    /\ \E ok \in RelayOutcomes :
          /\ engine_state' = Actuate(frame[t].enable, ok)
          /\ frame' = [frame EXCEPT ![t].relay_returned = IF ok THEN "True" ELSE "False"]
    /\ Goto(t, "r_save")
    /\ UNCHANGED <<now, hw, http, numerics, last_failed_auth, db, sms_sent, calls, result>>

RemoteSaveVehicle(t) ==
    /\ pc[t] = "r_save"
    /\ engine_enabled' = [engine_enabled EXCEPT ![frame[t].vehicle] = frame[t].enable]
    /\ Goto(t, "r_event")
    /\ UNCHANGED <<now, hw, http, numerics, engine_state, last_failed_auth, owner_phone, users, encodings,
                   auth_logs, events, alerts, sms_sent, calls, frame, result>>

RemoteEvent(t) ==
    /\ pc[t] = "r_event"
    /\ events' = events \cup {[id |-> Cardinality(events) + 1, call |-> frame[t].call,
                               event_type |-> IF frame[t].enable THEN "remote_enable"
                                              ELSE "remote_immobilize",
                               user |-> frame[t].user]}
    /\ Goto(t, "r_sms")
    /\ UNCHANGED <<now, hw, http, numerics, engine_state, last_failed_auth, engine_enabled, owner_phone,
                   users, encodings, auth_logs, alerts, sms_sent, calls, frame, result>>

RemoteSendSms(t) ==
    /\ pc[t] = "r_sms"
    /\ IF owner_phone[frame[t].vehicle]
       THEN SendSms(t, "engine_status",
                    EngineStatusSmsLength(frame[t].vehicle, frame[t].enable, frame[t].user))
       ELSE UNCHANGED <<sms_sent, frame>>
    /\ Finish(t, [success |-> TRUE,
                  message |-> IF frame[t].enable THEN "Engine remotely enabled"
                              ELSE "Engine remotely disabled",
                  engine_enabled |-> frame[t].enable])
    /\ UNCHANGED <<now, hw, http, numerics, engine_state, last_failed_auth, db, calls>>

\* The caller takes the returned dictionary (or the exception).
Return(t) ==
    /\ pc[t] = "done"
    /\ pc' = [pc EXCEPT ![t] = "idle"]
    /\ frame' = [frame EXCEPT ![t] = IdleFrame]
    /\ result' = [result EXCEPT ![t] = NoResult]
    /\ UNCHANGED <<now, hw, http, numerics, engine_state, last_failed_auth, db, sms_sent, calls>>

\* ------------------------------------------- authenticate_driver_api
\* The JSON body of a POST: vehicle_id (absent here as MissingId), image_data
\* (the image it encodes, NoImage when the key is absent) and capture_camera
\* ("absent", or the JSON booleans).
MissingId == <<"none", 0>>
ApiRequestIds == RequestIds \cup {MissingId}
ApiImages == {NoImage, FaceImage(0)}
CaptureFlags == {"absent", "true", "false"}

\* data.get('capture_camera', True)
CaptureCamera(flag) == flag # "false"

\* JsonResponse(result): DjangoJSONEncoder writes booleans, numbers and
\* strings as they are and a datetime as its ISO string; it raises TypeError
\* on a model instance (the 'user' of a Success result is a User object).
Serializable(res) == "user" \notin DOMAIN res

JsonBody(res) ==
    [k \in DOMAIN res |-> IF k = "locked_until" THEN <<"iso", res[k]>> ELSE res[k]]

\* The response of the view to what authenticate_driver returned or raised.
ApiResponse_DropsFields(res) ==
    IF "raised" \in DOMAIN res
    THEN [status |-> 500, body |-> [success |-> FALSE, message |-> res.raised]]
    ELSE IF ~Serializable(res)
    THEN [status |-> 500, body |-> [success |-> FALSE, message |-> "TypeError"]]
    ELSE [status |-> 200, body |-> [success |-> res.success, message |-> res.message]]

ApiResponse(res) ==
    IF "raised" \in DOMAIN res
    THEN [status |-> 500, body |-> [success |-> FALSE, message |-> res.raised]]
    ELSE IF ~Serializable(res)
    THEN [status |-> 500, body |-> [success |-> FALSE, message |-> "TypeError"]]
    ELSE [status |-> 200, body |-> JsonBody(res)]

\* The view up to its call of authenticate_driver: a request without a
\* vehicle id is answered 400 at once; any other starts authenticate_driver
\* with the vehicle id and the capture flag only (image stays None).
ApiCall(t, limit) ==
    /\ pc[t] = "idle"
    /\ calls < limit
    /\ calls' = calls + 1
    /\ \E rid \in ApiRequestIds, image_data \in ApiImages, flag \in CaptureFlags :
          LET request == [call |-> calls + 1, vehicle_id |-> rid, image_data |-> image_data,
                          capture_camera |-> flag]
          IN IF rid = MissingId
             THEN /\ http' = [http EXCEPT ![t] =
                                [request |-> request,
                                 response |-> [status |-> 400,
                                               body |-> [success |-> FALSE,
                                                         message |-> "Vehicle ID required"]]]]
                  /\ UNCHANGED <<pc, frame>>
             ELSE /\ http' = [http EXCEPT ![t] = [request |-> request, response |-> NoResponse]]
                  /\ frame' = [frame EXCEPT ![t] =
                                 [IdleFrame EXCEPT !.op = "authenticate_driver",
                                     !.call = calls + 1, !.vehicle_id = rid,
                                     !.capture_from_camera = CaptureCamera(flag)]]
                  /\ Goto(t, "a_get_vehicle")
    /\ UNCHANGED <<now, hw, numerics, engine_state, last_failed_auth, db, sms_sent, result>>

\* return JsonResponse(result), or the except branch of the view.
ApiRespond(t) ==
    /\ pc[t] = "done"
    /\ http[t].request # NoRequest
    /\ http' = [http EXCEPT ![t].response = ApiResponse(result[t])]
    /\ pc' = [pc EXCEPT ![t] = "idle"]
    /\ frame' = [frame EXCEPT ![t] = IdleFrame]
    /\ result' = [result EXCEPT ![t] = NoResult]
    /\ UNCHANGED <<now, hw, numerics, engine_state, last_failed_auth, db, sms_sent, calls>>

\* ------------------------------------------------------ vehicle_control
\* The dashboard view: it writes the vehicle row and an event, and never
\* touches the relay. permitted: request.user is an owner or the vehicle's
\* own user. The worker serves it between two other requests.
ControlActions == {"disable", "enable", "other"}

VehicleControl(limit) ==
    /\ \A t \in Threads : pc[t] = "idle"
    /\ calls < limit
    /\ calls' = calls + 1
    /\ \E v \in Vehicles, action \in ControlActions, user \in Actors, permitted \in BOOLEAN :
          IF permitted /\ action # "other"
          THEN /\ engine_enabled' = [engine_enabled EXCEPT ![v] = (action = "enable")]
               /\ events' = events \cup
                     {[id |-> Cardinality(events) + 1, call |-> calls + 1,
                       event_type |-> IF action = "enable" THEN "remote_enable"
                                      ELSE "remote_immobilize",
                       user |-> user]}
          ELSE UNCHANGED <<engine_enabled, events>>
    /\ UNCHANGED <<now, hw, http, numerics, engine_state, last_failed_auth, owner_phone, users,
                   encodings, auth_logs, alerts, sms_sent, pc, frame, result>>

\* ------------------------------------------- the relay, called directly
\* relay.enable_engine() / relay.disable_engine() by a client of the
\* controller, which keeps the state it read before (initial_state) and the
\* boolean returned.
RelayCommand(t, limit) ==
    /\ pc[t] = "idle"
    /\ calls < limit
    /\ calls' = calls + 1
    /\ \E commanded \in BOOLEAN, ok \in RelayOutcomes :
          /\ engine_state' = Actuate(commanded, ok)
          /\ frame' = [frame EXCEPT ![t] =
                         [IdleFrame EXCEPT !.op = "relay", !.call = calls + 1,
                             !.enable = commanded,
                             !.relay_returned = IF ok THEN "True" ELSE "False"]]
          /\ Finish(t, [returned |-> ok, initial_state |-> engine_state])
    /\ UNCHANGED <<now, hw, http, numerics, last_failed_auth, db, sms_sent>>

\* -------------------------------- authenticate_driver with a JSON id
\* authenticate_driver called with the vehicle_id as the request body
\* carried it: data.get('vehicle_id') is passed on undecoded.
CallAuthenticateDriverJson(t, limit) ==
    /\ pc[t] = "idle"
    /\ calls < limit
    /\ \E rid \in JsonIds, image \in Images \cup {NoImage}, capture \in BOOLEAN :
          frame' = [frame EXCEPT ![t] = [IdleFrame EXCEPT !.op = "authenticate_driver",
                        !.call = calls + 1, !.vehicle_id = rid, !.image = image,
                        !.capture_from_camera = capture]]
    /\ calls' = calls + 1
    /\ Goto(t, "a_get_vehicle")
    /\ UNCHANGED <<now, hw, http, numerics, engine_state, last_failed_auth, db, sms_sent, result>>

\* ------------------------------------------- enrollment and user admin
\* extract_face_encoding of the largest face: resized to 200 x 200 grayscale.
ExtractFaceEncoding(image) == Encoding(EncodingSide, image.px)

\* train_user_face(user_id, image): no image, an unreadable one or one without
\* a face returns False before the file is opened; otherwise the file
\* user_<id>.pkl is opened 'wb' and the new encoding dumped into it.
TrainUserFace_ClearsOnFailure(t, limit) ==
    /\ pc[t] = "idle"
    /\ calls < limit
    /\ calls' = calls + 1
    /\ \E u \in Users, image \in Images \cup {NoImage} :
          /\ frame' = [frame EXCEPT ![t] =
                         [IdleFrame EXCEPT !.op = "train_user_face", !.call = calls + 1,
                                           !.user = u, !.image = image]]
          /\ IF image.kind # "face"
             THEN /\ encodings' = [encodings EXCEPT ![u] = NoEncoding]
                  /\ Finish(t, [returned |-> FALSE])
             ELSE /\ encodings' = [encodings EXCEPT ![u] = ExtractFaceEncoding(image)]
                  /\ Finish(t, [returned |-> TRUE])
    /\ UNCHANGED <<now, hw, http, numerics, engine_state, last_failed_auth, engine_enabled,
                   owner_phone, users, auth_logs, events, alerts, sms_sent>>

TrainUserFace(t, limit) ==
    /\ pc[t] = "idle"
    /\ calls < limit
    /\ calls' = calls + 1
    /\ \E u \in Users, image \in Images \cup {NoImage} :
          /\ frame' = [frame EXCEPT ![t] =
                         [IdleFrame EXCEPT !.op = "train_user_face", !.call = calls + 1,
                                           !.user = u, !.image = image]]
          /\ IF image.kind # "face"
             THEN /\ UNCHANGED encodings
                  /\ Finish(t, [returned |-> FALSE])
             ELSE /\ encodings' = [encodings EXCEPT ![u] = ExtractFaceEncoding(image)]
                  /\ Finish(t, [returned |-> TRUE])
    /\ UNCHANGED <<now, hw, http, numerics, engine_state, last_failed_auth, engine_enabled,
                   owner_phone, users, auth_logs, events, alerts, sms_sent>>

\* The user change form of the admin site: is_authorized_driver and vehicle
\* of one user are saved, in a request of its own.
AdminSaveUser(limit) ==
    /\ calls < limit
    /\ calls' = calls + 1
    /\ \E u \in Users, flag \in BOOLEAN, v \in Vehicles \cup {NoVehicle} :
          /\ users[u] # [users[u] EXCEPT !.is_authorized_driver = flag, !.vehicle = v]
          /\ users' = [users EXCEPT ![u].is_authorized_driver = flag, ![u].vehicle = v]
    /\ UNCHANGED <<now, hw, http, numerics, engine_state, last_failed_auth, engine_enabled,
                   owner_phone, encodings, auth_logs, events, alerts, sms_sent, pc, frame,
                   result>>

\* ------------------------------------------- confidence normalization
\* Raw distances of the comparison loop, and the normalization applied to two
\* of them.
Distances == {d \in 0..MaxDistance : d % DistanceStep = 0}

NormalizeConfidence ==
    /\ "computed" \in DOMAIN numerics
    /\ ~numerics.computed
    /\ numerics' = [numerics EXCEPT !.computed = TRUE,
                                    !.c1 = NormalizedConfidence(numerics.d1),
                                    !.c2 = NormalizedConfidence(numerics.d2)]
    /\ UNCHANGED <<now, hw, http, engine_state, last_failed_auth, db, sms_sent, calls, pc,
                   frame, result>>

\* The delete view of the admin site: the user row goes, its
\* AuthenticationLog rows go with it (on_delete=CASCADE), VehicleEvent rows
\* keep a null user (on_delete=SET_NULL); the encoding file stays.
AdminDeleteUser ==
    \E u \in Users :
        /\ users[u].exists
        /\ users' = [users EXCEPT ![u].exists = FALSE]
        /\ auth_logs' = {l \in auth_logs : l.user # u}
        /\ events' = {IF e.user = u THEN [e EXCEPT !.user = NoUser] ELSE e : e \in events}
        /\ UNCHANGED <<now, hw, http, numerics, engine_state, last_failed_auth, engine_enabled,
                       owner_phone, encodings, alerts, sms_sent, calls, pc, frame, result>>

\* ----------------------------------------- the gateway, called directly
\* gsm.send_sms(phone_number, message) by a client of the gateway, with a
\* message of any length.
SmsLengths == {0, SmsLimit, SmsLimit + 1, MaxSmsLength}

GsmSendSms(t, limit) ==
    /\ pc[t] = "idle"
    /\ calls < limit
    /\ calls' = calls + 1
    /\ \E length \in SmsLengths, outcome \in SendOutcomes :
          /\ sms_sent' = sms_sent \cup {[call |-> calls + 1, kind |-> "direct",
                                          length |-> length]}
          /\ frame' = [frame EXCEPT ![t] =
                         [IdleFrame EXCEPT !.op = "send_sms", !.call = calls + 1,
                             !.sms_returned = SmsReturned(outcome),
                             !.transmitted = Transmitted(outcome, length)]]
          /\ Finish(t, [returned |-> outcome = "sent"])
    /\ UNCHANGED <<now, hw, http, numerics, engine_state, last_failed_auth, db>>

\* ------------------------------------------------------ specifications
Step(t, limit) ==
    \/ CallAuthenticateDriver(t, limit) \/ AuthGetVehicle(t) \/ AuthLockoutCheck(t)
    \/ AuthLocation(t) \/ AuthImage(t) \/ AuthMatch(t) \/ AuthGetUser(t)
    \/ AuthCreateLog(t) \/ AuthRelay(t) \/ AuthSaveVehicle(t)
    \/ AuthEventSuccess(t) \/ AuthClearLockout(t)
    \/ AuthSetLockout(t) \/ AuthEventUnauthorized(t) \/ AuthCreateAlert(t)
    \/ AuthSendSms(t)
    \/ CallRemoteControlEngine(t, limit) \/ RemoteGetVehicle(t) \/ RemoteRelay(t)
    \/ RemoteSaveVehicle(t) \/ RemoteEvent(t) \/ RemoteSendSms(t)
    \/ Return(t)

\* One call at a time (gunicorn.conf.py: sync workers, threads = 1).
Next == Tick(MaxTime) \/ \E t \in SeqThreads : Step(t, MaxCalls)

Spec == Init /\ [][Next]_vars

\* Two threads sharing the service singleton, calls interleaved statement
\* by statement; the relay is the simulated one the API surface constructs.
NextConcurrent ==
    Tick(MaxConcurrentTime) \/ \E t \in Threads : Step(t, MaxConcurrentCalls)

SpecConcurrent == InitSimulated /\ [][NextConcurrent]_vars

\* The HTTP surface: every authentication is a POST to authenticate_driver_api,
\* served by the simulated service the view constructs.
ApiStep(t, limit) ==
    \/ ApiCall(t, limit) \/ AuthGetVehicle(t) \/ AuthLockoutCheck(t)
    \/ AuthLocation(t) \/ AuthImage(t) \/ AuthMatch(t) \/ AuthGetUser(t)
    \/ AuthCreateLog(t) \/ AuthRelay(t) \/ AuthSaveVehicle(t)
    \/ AuthEventSuccess(t) \/ AuthClearLockout(t)
    \/ AuthSetLockout(t) \/ AuthEventUnauthorized(t) \/ AuthCreateAlert(t)
    \/ AuthSendSms(t)
    \/ ApiRespond(t)

NextApi == Tick(MaxApiTime) \/ \E t \in SeqThreads : ApiStep(t, MaxApiCalls)

SpecApi == InitSimulated /\ [][NextApi]_vars

\* The coordinator on the Raspberry Pi together with the dashboard's
\* vehicle_control view on the same data store.
NextDashboard ==
    \/ Tick(MaxDashboardTime)
    \/ \E t \in SeqThreads : Step(t, MaxDashboardCalls)
    \/ VehicleControl(MaxDashboardCalls)

SpecDashboard == Init /\ [][NextDashboard]_vars

\* The relay controller alone, in each of the ways get_relay_controller can
\* construct it, commanded directly.
InitRelay ==
    /\ \E mode \in RelayModes : InitWith(mode, {6000})
    /\ encodings[2] = NoEncoding
    /\ numerics = NoNumerics

NextRelay == \E t \in SeqThreads : RelayCommand(t, MaxRelayCalls) \/ Return(t)

SpecRelay == InitRelay /\ [][NextRelay]_vars

\* The coordinator with the real GSM module, and the gateway called directly.
NextGsm ==
    \/ Tick(MaxGsmTime)
    \/ \E t \in SeqThreads : Step(t, MaxGsmCalls) \/ GsmSendSms(t, MaxGsmCalls)

SpecGsm == Init /\ [][NextGsm]_vars

\* Attempts on vehicle 1 whose id arrives as a JSON number or a JSON string.
JsonStep(t, limit) ==
    \/ CallAuthenticateDriverJson(t, limit) \/ AuthGetVehicle(t) \/ AuthLockoutCheck(t)
    \/ AuthLocation(t) \/ AuthImage(t) \/ AuthMatch(t) \/ AuthGetUser(t)
    \/ AuthCreateLog(t) \/ AuthRelay(t) \/ AuthSaveVehicle(t)
    \/ AuthEventSuccess(t) \/ AuthClearLockout(t)
    \/ AuthSetLockout(t) \/ AuthEventUnauthorized(t) \/ AuthCreateAlert(t)
    \/ AuthSendSms(t)
    \/ Return(t)

NextJson == Tick(MaxJsonTime) \/ \E t \in SeqThreads : JsonStep(t, MaxJsonCalls)

SpecJson == InitSimulated /\ [][NextJson]_vars

\* Attempts over several lockout windows, with a clock that keeps advancing
\* while it can.
ExpiryStep(t, limit) ==
    \/ CallAuthenticateDriver(t, limit) \/ AuthGetVehicle(t) \/ AuthLockoutCheck(t)
    \/ AuthLocation(t) \/ AuthImage(t) \/ AuthMatch(t) \/ AuthGetUser(t)
    \/ AuthCreateLog(t) \/ AuthRelay(t) \/ AuthSaveVehicle(t)
    \/ AuthEventSuccess(t) \/ AuthClearLockout(t)
    \/ AuthSetLockout(t) \/ AuthEventUnauthorized(t) \/ AuthCreateAlert(t)
    \/ AuthSendSms(t)
    \/ Return(t)

NextExpiry == Tick(MaxExpiryTime) \/ \E t \in SeqThreads : ExpiryStep(t, MaxExpiryCalls)

SpecExpiry == InitSimulated /\ [][NextExpiry]_vars /\ WF_vars(Tick(MaxExpiryTime))

\* Attempts on the real relay while users are deleted in the admin site.
DeletionStep(t, limit) ==
    \/ CallAuthenticateDriver(t, limit) \/ AuthGetVehicle(t) \/ AuthLockoutCheck(t)
    \/ AuthLocation(t) \/ AuthImage(t) \/ AuthMatch(t) \/ AuthGetUser(t)
    \/ AuthCreateLog(t) \/ AuthRelay(t) \/ AuthSaveVehicle(t)
    \/ AuthEventSuccess(t) \/ AuthClearLockout(t)
    \/ AuthSetLockout(t) \/ AuthEventUnauthorized(t) \/ AuthCreateAlert(t)
    \/ AuthSendSms(t)
    \/ Return(t)

NextDeletion == AdminDeleteUser \/ \E t \in SeqThreads : DeletionStep(t, MaxDeletionCalls)

SpecDeletion ==
    InitWith(RealRelay, {6000}) /\ numerics = NoNumerics /\ [][NextDeletion]_vars

\* Attempts on a vehicle with two authorized drivers whose stored encodings
\* are any of: none, 200 x 200 of either probe value, 100 x 100.
StoredEncodings ==
    {NoEncoding, Encoding(100, 0)} \cup {Encoding(EncodingSide, px) : px \in ProbePixels}

InitMatch ==
    /\ now = 0
    /\ recognition_tolerance = 6000
    /\ relay_class = SimulatedRelay[1] /\ gpio_initialized = SimulatedRelay[2]
    /\ simulated = SimulatedRelay[3]
    /\ engine_state = FALSE
    /\ last_failed_auth = [k \in LockoutKeys |-> NoEntry]
    /\ engine_enabled = [v \in Vehicles |-> TRUE]
    /\ owner_phone = [v \in Vehicles |-> v = 1]
    /\ users = [u \in Users |-> [exists |-> TRUE, vehicle |-> 1, is_authorized_driver |-> TRUE]]
    /\ encodings \in [Users -> StoredEncodings]
    /\ auth_logs = {} /\ events = {} /\ alerts = {} /\ sms_sent = {}
    /\ calls = 0
    /\ pc = [t \in Threads |-> "idle"]
    /\ frame = [t \in Threads |-> IdleFrame]
    /\ result = [t \in Threads |-> NoResult]
    /\ http = [t \in Threads |-> NoHttp]
    /\ numerics = NoNumerics

MatchStep(t, limit) ==
    \/ CallAuthenticateDriver(t, limit) \/ AuthGetVehicle(t) \/ AuthLockoutCheck(t)
    \/ AuthLocation(t) \/ AuthImage(t) \/ AuthMatch(t) \/ AuthGetUser(t)
    \/ AuthCreateLog(t) \/ AuthRelay(t) \/ AuthSaveVehicle(t)
    \/ AuthEventSuccess(t) \/ AuthClearLockout(t)
    \/ AuthSetLockout(t) \/ AuthEventUnauthorized(t) \/ AuthCreateAlert(t)
    \/ AuthSendSms(t)
    \/ Return(t)

NextMatch == \E t \in SeqThreads : MatchStep(t, MaxMatchCalls)

SpecMatch == InitMatch /\ [][NextMatch]_vars

\* The normalization alone, applied to every pair of raw distances.
InitConfidence ==
    /\ InitWith(SimulatedRelay, {6000}) /\ encodings[2] = NoEncoding
    /\ \E d1, d2 \in Distances :
          numerics = [d1 |-> d1, d2 |-> d2, computed |-> FALSE, c1 |-> 0, c2 |-> 0]

NextConfidence == NormalizeConfidence

SpecConfidence == InitConfidence /\ [][NextConfidence]_vars

\* Authentication attempts, enrollments and admin edits of the users, each a
\* request of its own; the clock stands still.
EnrollmentStep(t, limit) ==
    \/ CallAuthenticateDriver(t, limit) \/ AuthGetVehicle(t) \/ AuthLockoutCheck(t)
    \/ AuthLocation(t) \/ AuthImage(t) \/ AuthMatch(t) \/ AuthGetUser(t)
    \/ AuthCreateLog(t) \/ AuthRelay(t) \/ AuthSaveVehicle(t)
    \/ AuthEventSuccess(t) \/ AuthClearLockout(t)
    \/ AuthSetLockout(t) \/ AuthEventUnauthorized(t) \/ AuthCreateAlert(t)
    \/ AuthSendSms(t)
    \/ TrainUserFace(t, limit)
    \/ Return(t)

NextEnrollment ==
    \/ AdminSaveUser(MaxEnrollmentCalls)
    \/ \E t \in SeqThreads : EnrollmentStep(t, MaxEnrollmentCalls)

SpecEnrollment ==
    InitWith(SimulatedRelay, Tolerances) /\ numerics = NoNumerics /\ [][NextEnrollment]_vars

\* ============================================================== claims
AuthThreads == {t \in Threads : frame[t].op = "authenticate_driver"}

LogsOf(t) == {l \in auth_logs : l.call = frame[t].call}
EventsOf(t) == {e \in events : e.call = frame[t].call}
AlertsOf(t) == {a \in alerts : a.call = frame[t].call}
SmsOf(t) == {m \in sms_sent : m.call = frame[t].call}

Returned(t) == pc[t] = "done" /\ "success" \in DOMAIN result[t]
RejectedLockedOut(t) == Returned(t) /\ "locked_until" \in DOMAIN result[t]
EndedUnauthorized(t) == Returned(t) /\ "alert_created" \in DOMAIN result[t]
EndedSuccess(t) ==
    Returned(t) /\ frame[t].op = "authenticate_driver" /\ result[t].success

\* C1: when the lockout check runs while an entry for the vehicle id exists
\* and less than AUTHENTICATION_TIMEOUT seconds have passed since it was set,
\* that very step ends the call with the locked-out rejection, and it changes
\* neither the image, the match locals, the relay, the vehicle rows, the lockout
\* map, nor the audit, event, alert and SMS records.
C1_LockedOutRejectsImmediately ==
    [][\A t \in Threads :
          (/\ pc[t] = "a_lockout" /\ pc'[t] # "a_lockout"
           /\ last_failed_auth[frame[t].vehicle_id] # NoEntry
           /\ now - last_failed_auth[frame[t].vehicle_id] < AUTHENTICATION_TIMEOUT)
          => (/\ pc'[t] = "done"
              /\ result'[t].success = FALSE
              /\ result'[t].message = "Authentication temporarily locked. Please wait."
              /\ frame'[t] = frame[t]
              /\ frame[t].relay_returned = "none"
              /\ LogsOf(t) = {} /\ EventsOf(t) = {} /\ AlertsOf(t) = {}
              /\ UNCHANGED <<engine_state, engine_enabled, last_failed_auth,
                             auth_logs, events, alerts, sms_sent>>)]_vars

\* C1 witness: a call has been rejected as locked out 29 seconds after the
\* failure that set the entry, with no image matched and no record written.
C1_Witness ==
    \E t \in Threads :
        /\ RejectedLockedOut(t)
        /\ now - result[t].locked_until = 29
        /\ frame[t].image # NoImage
        /\ LogsOf(t) = {}

\* C2: right after the match, the attempt counts as authenticated if and only
\* if a candidate was compared (best_match_user is set) and its confidence is
\* at least the tolerance; and no audit record says 'success' without an
\* identity.
C2_SuccessIffCandidateMeetsTolerance ==
    /\ \A t \in Threads :
          pc[t] = "a_user" =>
            (frame[t].is_authenticated <=>
               (frame[t].user_id # NoUser /\ frame[t].confidence >= recognition_tolerance))
    /\ \A l \in auth_logs : l.status = "success" => l.user # NoUser

\* The statements that follow the match and precede the update of the lockout
\* map; those up to the creation of the audit record, and those after it.
AfterMatch ==
    {"a_user", "a_log", "a_relay", "a_save", "a_set_lockout", "a_event_success",
     "a_clear_lockout"}
BeforeLog ==
    {"a_get_vehicle", "a_lockout", "a_location", "a_image", "a_match", "a_user", "a_log"}
AfterLog ==
    {"a_relay", "a_save", "a_set_lockout", "a_event_success", "a_clear_lockout",
     "a_event_unauthorized", "a_alert", "a_sms"}

\* C3: no two calls for the same vehicle id are both past the lockout check
\* and past the match while one of them, failed, has its lockout update still
\* to come (the check and the update of one call exclude those of the other).
C3_LockoutSectionExclusive ==
    \A t, u \in AuthThreads :
        (/\ t # u
         /\ frame[t].vehicle_id = frame[u].vehicle_id
         /\ pc[t] \in {"a_log", "a_relay", "a_save", "a_set_lockout"}
         /\ ~frame[t].is_authenticated)
        => pc[u] \notin AfterMatch

\* C4: once an authenticate_driver call and another call on the same vehicle
\* (authenticate_driver or remote_control_engine) that both actuated the relay
\* have finished, the vehicle row's engine_enabled equals the relay's
\* engine_state.
C4_FinalStateConsistent ==
    \A t \in AuthThreads, u \in Threads :
        (/\ t # u
         /\ Returned(t) /\ Returned(u)
         /\ frame[t].relay_returned # "none" /\ frame[u].relay_returned # "none"
         /\ frame[t].vehicle = frame[u].vehicle)
        => engine_enabled[frame[t].vehicle] = engine_state

\* C5: a call that has not reached the log statement has no AuthenticationLog
\* row; from the log statement on (so whenever the relay has been actuated, and
\* when the call has ended Success or Unauthorized) it has exactly one, whose
\* status is the match decision; a call that ended otherwise has none.
C5_OneLogAfterMatchBeforeRelay ==
    \A t \in AuthThreads :
        /\ pc[t] \in BeforeLog => LogsOf(t) = {} /\ frame[t].relay_returned = "none"
        /\ (pc[t] \in AfterLog \/ frame[t].relay_returned # "none"
              \/ (Returned(t) /\ "confidence" \in DOMAIN result[t]))
           => /\ Cardinality(LogsOf(t)) = 1
              /\ \A l \in LogsOf(t) :
                    /\ l.status = IF frame[t].is_authenticated THEN "success"
                                  ELSE "unauthorized"
                    /\ l.vehicle = frame[t].vehicle
        /\ (Returned(t) /\ "confidence" \notin DOMAIN result[t]) => LogsOf(t) = {}

\* C5 witness: a call is about to actuate the relay with its one log written,
\* after an earlier call ended Success with its log.
C5_Witness ==
    \E t \in AuthThreads :
        /\ pc[t] = "a_relay"
        /\ Cardinality(LogsOf(t)) = 1
        /\ \E l \in auth_logs : l.call < frame[t].call /\ l.status = "success"

\* C6: when the relay actuation of a call failed (enable_engine or
\* disable_engine returned False), the call still returns, its audit record
\* exists, and the result does not report the commanded engine state as in
\* effect: it carries a warning, or its engine_enabled is the relay's state.
C6_ActuationFailureReported ==
    \A t \in AuthThreads :
        (Returned(t) /\ frame[t].relay_returned = "False")
        => /\ Cardinality(LogsOf(t)) = 1
           /\ \/ "warnings" \in DOMAIN result[t]
              \/ result[t].engine_enabled = engine_state

\* C7: when authenticate_driver has ended Unauthorized, the relay is Disabled,
\* the vehicle row's engine_enabled is False, the lockout entry of the vehicle
\* id is set (to a time not after now), and the call has exactly one
\* AuthenticationLog, of status 'unauthorized', and exactly one alert.
C7_UnauthorizedPostState ==
    \A t \in AuthThreads :
        EndedUnauthorized(t)
        => /\ engine_state = FALSE
           /\ engine_enabled[frame[t].vehicle] = FALSE
           /\ last_failed_auth[frame[t].vehicle_id] # NoEntry
           /\ last_failed_auth[frame[t].vehicle_id] <= now
           /\ Cardinality(LogsOf(t)) = 1
           /\ \A l \in LogsOf(t) : l.status = "unauthorized"
           /\ Cardinality(AlertsOf(t)) = 1

\* C8: when authenticate_driver has ended Success, the relay is Enabled, the
\* vehicle row's engine_enabled is True, the vehicle id has no lockout entry,
\* the call has exactly one AuthenticationLog, of status 'success', and the
\* result carries the matched identity and its confidence.
C8_SuccessPostState ==
    \A t \in AuthThreads :
        EndedSuccess(t)
        => /\ engine_state = TRUE
           /\ engine_enabled[frame[t].vehicle] = TRUE
           /\ last_failed_auth[frame[t].vehicle_id] = NoEntry
           /\ Cardinality(LogsOf(t)) = 1
           /\ \A l \in LogsOf(t) : l.status = "success" /\ l.user = result[t].user
           /\ result[t].user = frame[t].user_id /\ result[t].user # NoUser
           /\ result[t].confidence = frame[t].confidence

\* C9: a call rejected as locked out reports the entry it found, and that
\* entry is still the vehicle id's lockout entry (the rejection did not restart
\* the window); and whenever the lockout check runs less than
\* AUTHENTICATION_TIMEOUT seconds after the entry's time, the call is rejected
\* and the whole lockout map stays as it was.
C9_LockoutIdempotent ==
    /\ [](\A t \in AuthThreads :
            RejectedLockedOut(t)
            => /\ result[t].locked_until = last_failed_auth[frame[t].vehicle_id]
               /\ result[t].locked_until # NoEntry)
    /\ [][\A t \in Threads :
            (/\ pc[t] = "a_lockout" /\ pc'[t] # "a_lockout"
             /\ last_failed_auth[frame[t].vehicle_id] # NoEntry
             /\ now < last_failed_auth[frame[t].vehicle_id] + AUTHENTICATION_TIMEOUT)
            => (/\ "locked_until" \in DOMAIN result'[t]
                /\ last_failed_auth' = last_failed_auth)]_vars

\* C9 witness: after one failed call (the only call that left an audit
\* record), the third call is rejected as locked out, later than the failure
\* and inside its window, and the entry is still the failure's.
C9_Witness ==
    \E t \in AuthThreads :
        /\ RejectedLockedOut(t)
        /\ frame[t].call = 3
        /\ Cardinality(auth_logs) = 1 /\ events = {e \in events : e.call = 1}
        /\ \A l \in auth_logs : l.call = 1 /\ l.vehicle = frame[t].vehicle
        /\ now > result[t].locked_until
        /\ last_failed_auth[frame[t].vehicle_id] = result[t].locked_until

\* C10: when authenticate_driver has ended Success, the vehicle id has no
\* lockout entry; and the lockout update of a failed call sets the entry to
\* the time of that update, whatever the entry was before.
C10_LockoutClearsOnSuccess ==
    /\ [](\A t \in AuthThreads :
            EndedSuccess(t) => last_failed_auth[frame[t].vehicle_id] = NoEntry)
    /\ [][\A t \in Threads :
            (pc[t] = "a_set_lockout" /\ pc'[t] # "a_set_lockout")
            => /\ last_failed_auth'[frame[t].vehicle_id] = now
               /\ \A k \in RequestIds \ {frame[t].vehicle_id} :
                     last_failed_auth'[k] = last_failed_auth[k]]_vars

\* C10 witness: the first call failed, the second succeeded for the same
\* vehicle after the window, and the third has failed: the entry is the time
\* of the third call's failure, at least a window after the first.
C10_Witness ==
    \E t \in AuthThreads :
        /\ EndedUnauthorized(t)
        /\ frame[t].call = 3
        /\ \E l1, l2 \in auth_logs :
              /\ l1.call = 1 /\ l1.status = "unauthorized" /\ l1.vehicle = frame[t].vehicle
              /\ l2.call = 2 /\ l2.status = "success" /\ l2.vehicle = frame[t].vehicle
        /\ last_failed_auth[frame[t].vehicle_id] >= AUTHENTICATION_TIMEOUT

\* The AuthorizationSet of a vehicle: the users assigned to it and flagged
\* authorized driver who are enrolled (have a stored encoding).
AuthorizationSet(v) ==
    {u \in Users : users[u].exists /\ users[u].vehicle = v
                    /\ users[u].is_authorized_driver /\ encodings[u] # NoEncoding}

EmptySetCalls ==
    {t \in AuthThreads : /\ Resolve(frame[t].vehicle_id) # NoVehicle
                          /\ AuthorizationSet(Resolve(frame[t].vehicle_id)) = {}}

\* C11: a call of authenticate_driver for a vehicle whose AuthorizationSet is
\* empty never counts as authenticated, never ends Success, never writes a
\* 'success' audit record, and none of its steps turns the relay or the
\* vehicle row's engine_enabled from off to on.
C11_EmptySetNeverSuccess ==
    /\ [](\A t \in EmptySetCalls :
            /\ ~frame[t].is_authenticated
            /\ ~EndedSuccess(t)
            /\ \A l \in LogsOf(t) : l.status = "unauthorized")
    /\ [][\A t \in EmptySetCalls :
            pc'[t] # pc[t]
            => /\ engine_state' => engine_state
               /\ \A v \in Vehicles : engine_enabled'[v] => engine_enabled[v]]_vars

\* C11 witness: with tolerance 0, a call that presented a face for a vehicle
\* with an empty AuthorizationSet has ended Unauthorized.
C11_Witness ==
    \E t \in EmptySetCalls :
        /\ EndedUnauthorized(t)
        /\ frame[t].face_image
        /\ recognition_tolerance = 0
        /\ result[t].confidence = 0

\* The calls whose match step has run (the audit record follows it at once),
\* and those among them whose image showed no face (face_image is None).
Matched(t) == pc[t] \in {"a_user", "a_log"} \/ LogsOf(t) # {}
ZeroFaceCalls == {t \in AuthThreads : Matched(t) /\ ~frame[t].face_image}

\* C12: the match of an image in which no face is detected yields no face
\* image and no authentication; a call matched on such an image is never
\* authenticated, names no user, has confidence 0 and, once returned, has
\* ended Unauthorized; and a call with no image at all and no camera capture
\* ends with the rejection 'No image provided'.
C12_ZeroFacesNeverSuccess ==
    /\ [](\A t \in ZeroFaceCalls :
            /\ ~frame[t].is_authenticated
            /\ frame[t].user_id = NoUser /\ frame[t].confidence = 0
            /\ pc[t] = "done" => EndedUnauthorized(t))
    /\ [][\A t \in AuthThreads :
            (pc[t] = "a_match" /\ pc'[t] # "a_match" /\ frame[t].image.kind = "blank")
            => ~frame'[t].face_image /\ ~frame'[t].is_authenticated]_vars
    /\ [][\A t \in AuthThreads :
            (/\ pc[t] = "a_image" /\ pc'[t] # "a_image"
             /\ frame[t].image = NoImage /\ ~frame[t].capture_from_camera)
            => /\ pc'[t] = "done" /\ ~result'[t].success
               /\ result'[t].message = "No image provided"]_vars

\* C12 witness: with tolerance 0, a call for a vehicle that has an enrolled
\* driver was matched on an image without a face and has ended Unauthorized.
C12_Witness ==
    \E t \in ZeroFaceCalls :
        /\ EndedUnauthorized(t)
        /\ recognition_tolerance = 0
        /\ AuthorizationSet(frame[t].vehicle) # {}

\* The results of the input errors, and what tells them from Unauthorized.
InputErrorMessages ==
    {"Vehicle not found", "Failed to capture image from camera", "No image provided"}

RejectedInput(res) ==
    /\ "success" \in DOMAIN res /\ ~res.success
    /\ res.message \in InputErrorMessages
    /\ DOMAIN res \cap {"confidence", "engine_enabled", "alert_created", "locked_until"} = {}

RecordsOfCall(c) ==
    {l \in auth_logs : l.call = c} \cup {e \in events : e.call = c}
        \cup {a \in alerts : a.call = c}

\* C13: the vehicle lookup of an unknown vehicle id ends the call with a
\* rejection; the image step either goes on to the match with an image in hand
\* or ends the call with a rejection (or an exception); a request without a
\* vehicle id is answered 400 'Vehicle ID required'. Each of these rejections
\* is a failure whose message names the input error, carries none of the
\* fields of an Unauthorized result, and the call has written no
\* AuthenticationLog (nor event, nor alert).
C13_InputErrorsRejected ==
    /\ [](\A t \in Threads :
            /\ (\/ (Returned(t) /\ result[t].message \in InputErrorMessages)
                 \/ (pc[t] = "done" /\ Resolve(frame[t].vehicle_id) = NoVehicle))
               => RejectedInput(result[t]) /\ RecordsOfCall(frame[t].call) = {}
            /\ (http[t].request # NoRequest /\ http[t].request.vehicle_id = MissingId)
               => /\ http[t].response.status = 400
                  /\ ~http[t].response.body.success
                  /\ http[t].response.body.message = "Vehicle ID required"
                  /\ DOMAIN http[t].response.body = {"success", "message"}
                  /\ RecordsOfCall(http[t].request.call) = {})
    /\ [][\A t \in AuthThreads :
            (pc[t] = "a_image" /\ pc'[t] # "a_image")
            => \/ pc'[t] = "a_match" /\ frame'[t].image # NoImage
               \/ pc'[t] = "done" /\ "raised" \in DOMAIN result'[t]
               \/ /\ pc'[t] = "done" /\ RejectedInput(result'[t])
                  /\ frame'[t].image = NoImage
                  /\ UNCHANGED <<auth_logs, events, alerts, engine_state, last_failed_auth>>]_vars

\* C13 witness: after an earlier request left an audit record, a request
\* whose camera capture failed has been rejected, with no record of its own.
C13_Witness ==
    \E t \in AuthThreads :
        /\ Returned(t)
        /\ result[t].message = "Failed to capture image from camera"
        /\ http[t].request # NoRequest
        /\ auth_logs # {}
        /\ RecordsOfCall(frame[t].call) = {}

\* The terminal states of authenticate_driver, read off the returned
\* dictionary.
TerminalStates(res) ==
    {k \in {"Success", "Unauthorized", "RejectedLockedOut", "RejectedInput"} :
        \/ k = "Success" /\ res.success /\ "user" \in DOMAIN res
        \/ k = "Unauthorized" /\ ~res.success /\ "alert_created" \in DOMAIN res
        \/ k = "RejectedLockedOut" /\ ~res.success /\ "locked_until" \in DOMAIN res
        \/ k = "RejectedInput" /\ RejectedInput(res)}

\* C14: a call of authenticate_driver that has ended has returned a
\* dictionary with 'success' and 'message' that is in exactly one of the
\* terminal states Success, Unauthorized, Rejected(locked-out),
\* Rejected(input); it has not ended by raising an exception.
C14_AlwaysReturnsResult ==
    \A t \in AuthThreads :
        pc[t] = "done"
        => /\ "raised" \notin DOMAIN result[t]
           /\ {"success", "message"} \subseteq DOMAIN result[t]
           /\ Cardinality(TerminalStates(result[t])) = 1

\* No operation is in flight.
Quiescent == \A t \in Threads : pc[t] = "idle"

\* C15: whenever no operation is in flight (the state after construction
\* and the states after vehicle_control included), every vehicle row's
\* engine_enabled equals the relay controller's engine_state.
C15_RuntimeStateMirrorsRelay ==
    Quiescent => \A v \in Vehicles : engine_enabled[v] = engine_state

\* C16: a call of authenticate_driver hands at most one message to the
\* gateway, none before it ends; once ended it has sent one if and only if it
\* ended Unauthorized with a location acquired and a non-empty owner phone
\* number, and that message is the unauthorized-access notice.
C16_SmsExactlyWhen ==
    \A t \in AuthThreads :
        /\ Cardinality(SmsOf(t)) <= 1
        /\ pc[t] # "done" => SmsOf(t) = {}
        /\ pc[t] = "done"
           => (SmsOf(t) # {}
               <=> (/\ EndedUnauthorized(t)
                    /\ frame[t].current_location
                    /\ owner_phone[frame[t].vehicle]))
        /\ \A m \in SmsOf(t) : m.kind = "unauthorized_access"

\* C16 witness: after an earlier call sent a message, a call has ended
\* Unauthorized with a location but for a vehicle whose owner has no phone
\* number, and has sent none.
C16_Witness ==
    \E t \in AuthThreads :
        /\ EndedUnauthorized(t)
        /\ frame[t].current_location
        /\ ~owner_phone[frame[t].vehicle]
        /\ SmsOf(t) = {}
        /\ \E m \in sms_sent : m.kind = "unauthorized_access"

RemoteThreads == {t \in Threads : frame[t].op = "remote_control_engine"}

\* C17: a call of remote_control_engine for an existing vehicle that has
\* returned has succeeded, locked out or not; its vehicle lookup goes on to
\* the relay whatever the lockout map holds; and no step of it changes the
\* lockout map.
C17_RemoteIndependentOfLockout ==
    /\ [](\A t \in RemoteThreads :
            (pc[t] = "done" /\ Resolve(frame[t].vehicle_id) # NoVehicle)
            => result[t].success)
    /\ [][\A t \in RemoteThreads :
            /\ pc'[t] # pc[t] => last_failed_auth' = last_failed_auth
            /\ (/\ pc[t] = "r_get_vehicle" /\ pc'[t] # "r_get_vehicle"
                /\ Resolve(frame[t].vehicle_id) # NoVehicle)
               => pc'[t] = "r_relay"]_vars

\* C17 witness: a remote call has succeeded for a vehicle that is locked
\* out at that moment, and the lockout entry is still the failure's.
C17_Witness ==
    \E t \in RemoteThreads :
        /\ Returned(t) /\ result[t].success
        /\ IsLockedOut(frame[t].vehicle_id)
        /\ \E l \in auth_logs : l.status = "unauthorized" /\ l.vehicle = frame[t].vehicle

\* C18: when remote_control_engine has returned for an existing vehicle,
\* the relay's engine_state and the vehicle row's engine_enabled both equal
\* `enable` (so the engine is Disabled after enable=False), the call has
\* written exactly one event, of the matching type and attributed to the
\* actor, and, the owner having a phone number, has sent exactly one
\* engine-status message.
C18_RemotePostState ==
    \A t \in RemoteThreads :
        (Returned(t) /\ result[t].success)
        => /\ engine_state = frame[t].enable
           /\ engine_enabled[frame[t].vehicle] = frame[t].enable
           /\ result[t].engine_enabled = frame[t].enable
           /\ Cardinality(EventsOf(t)) = 1
           /\ \A e \in EventsOf(t) :
                 /\ e.user = frame[t].user
                 /\ e.event_type = IF frame[t].enable THEN "remote_enable"
                                   ELSE "remote_immobilize"
           /\ owner_phone[frame[t].vehicle]
              => /\ Cardinality(SmsOf(t)) = 1
                 /\ \A m \in SmsOf(t) : m.kind = "engine_status"

\* The fields of the coordinator's result the surface reports.
ReportedFields == {"success", "message", "confidence", "engine_enabled", "alert_created"}

\* C19: when the view answers a request whose authenticate_driver call
\* returned a result, the response has status 200 and carries every one of
\* success, message, confidence, engine_enabled and alert_created that the
\* result has, with the result's value; a Success result is reported as
\* success.
C19_ApiReturnsResultVerbatim ==
    [][\A t \in AuthThreads :
          (/\ pc[t] = "done" /\ pc'[t] = "idle"
           /\ http[t].request # NoRequest
           /\ Returned(t))
          => /\ http'[t].response.status = 200
             /\ \A k \in DOMAIN result[t] \cap ReportedFields :
                   /\ k \in DOMAIN http'[t].response.body
                   /\ http'[t].response.body[k] = result[t][k]]_vars

\* C20: a request that carries a vehicle id and a pre-captured image, with
\* capture_camera false, is not rejected for want of an image: its call
\* reaches the match step, with the supplied image, and takes no camera
\* frame.
C20_SuppliedImageIsMatched ==
    \A t \in AuthThreads :
        (/\ http[t].request # NoRequest
         /\ http[t].request.image_data # NoImage
         /\ http[t].request.capture_camera = "false")
        => /\ pc[t] \in {"a_image", "a_match"} => frame[t].image = http[t].request.image_data
           /\ Returned(t) => result[t].message # "No image provided"

RelayThreads == {t \in Threads : frame[t].op = "relay"}

\* C21 (as stated): every enable_engine / disable_engine call returns
\* success and leaves get_engine_state equal to the state it commanded; in
\* particular a command repeated on a controller already in that state.
C21_RelayIdempotent ==
    [][\A t \in Threads :
          (pc[t] = "idle" /\ pc'[t] = "done" /\ frame'[t].op = "relay")
          => /\ result'[t].returned
             /\ engine_state' = frame'[t].enable]_vars

\* C21 (amended): a command that returns success leaves get_engine_state
\* equal to the commanded state, so a repeated command that succeeds leaves
\* the state as it was; a command returns failure only on a controller that
\* drives GPIO, and then leaves the state unchanged.
C21_RelayIdempotentWhenActuated ==
    [][\A t \in Threads :
          (pc[t] = "idle" /\ pc'[t] = "done" /\ frame'[t].op = "relay")
          => /\ result'[t].returned => engine_state' = frame'[t].enable
             /\ (result'[t].returned /\ engine_state = frame'[t].enable)
                => engine_state' = engine_state
             /\ ~result'[t].returned
                => /\ engine_state' = engine_state
                   /\ relay_class = "RelayController" /\ gpio_initialized]_vars

\* C21 witness: enable_engine was called on a controller already Enabled
\* by an earlier call, returned success, and the state is Enabled.
C21_Witness ==
    \E t \in RelayThreads :
        /\ pc[t] = "done"
        /\ frame[t].enable /\ result[t].initial_state
        /\ result[t].returned /\ engine_state
        /\ frame[t].call >= 2

\* A successful authentication at its relay step: the attempt resolved an
\* identity that is in the vehicle's AuthorizationSet.
AuthenticatedAtRelay(t) ==
    /\ frame[t].op = "authenticate_driver" /\ pc[t] = "a_relay"
    /\ frame[t].is_authenticated
    /\ frame[t].authenticated_user \in AuthorizationSet(frame[t].vehicle)

RemoteEnableAtRelay(t) ==
    frame[t].op = "remote_control_engine" /\ pc[t] = "r_relay" /\ frame[t].enable

\* C22: the relay starts Disabled, and every step that turns it from
\* Disabled to Enabled is the relay step of a successful authentication or
\* of a remote enable.
C22_FailSafeDefault ==
    /\ ~engine_state
    /\ [][(engine_state' /\ ~engine_state)
          => \E t \in Threads :
                /\ pc'[t] # pc[t]
                /\ AuthenticatedAtRelay(t) \/ RemoteEnableAtRelay(t)]_vars

\* C23: whatever text is passed to send_sms, the body written to the
\* transport has at most 160 characters.
C23_TransmittedAtMost160 ==
    \A t \in Threads : frame[t].transmitted <= SmsLimit

\* The result of an Unauthorized ending, from the locals of the attempt.
UnauthorizedResult(f) ==
    [success |-> FALSE,
     message |-> "Authentication failed. Unauthorized access detected.",
     confidence |-> f.confidence, engine_enabled |-> FALSE, alert_created |-> TRUE]

\* C24: a call that sent a message has not ended by raising, whatever
\* send_sms returned; the SMS step of authenticate_driver ends the call with
\* the Unauthorized result and changes neither the relay, the lockout map,
\* the vehicle rows, nor the audit, event and alert records, and the SMS
\* step of remote_control_engine ends the call with success and the
\* commanded state, whether the send succeeded or failed; a direct send_sms
\* returns the boolean of the send.
C24_MessagingFailureNonFatal ==
    /\ [](\A t \in Threads :
            (pc[t] = "done" /\ frame[t].sms_returned # "none")
            => /\ "raised" \notin DOMAIN result[t]
               /\ frame[t].op = "send_sms"
                  => result[t].returned = (frame[t].sms_returned = "True"))
    /\ [][\A t \in Threads :
            /\ (pc[t] = "a_sms" /\ pc'[t] # "a_sms")
               => /\ pc'[t] = "done" /\ result'[t] = UnauthorizedResult(frame[t])
                  /\ UNCHANGED <<engine_state, last_failed_auth, db>>
            /\ (pc[t] = "r_sms" /\ pc'[t] # "r_sms")
               => /\ pc'[t] = "done" /\ result'[t].success
                  /\ result'[t].engine_enabled = frame[t].enable
                  /\ UNCHANGED <<engine_state, last_failed_auth, db>>]_vars

\* C24 witness: a call has ended Unauthorized although the gateway could not
\* be reached: send_sms returned False, nothing was transmitted, and the
\* lockout entry, the audit record and the alert of the call are in place.
C24_Witness ==
    \E t \in AuthThreads :
        /\ EndedUnauthorized(t)
        /\ frame[t].sms_returned = "False" /\ frame[t].transmitted = NoEntry
        /\ last_failed_auth[frame[t].vehicle_id] # NoEntry
        /\ Cardinality(LogsOf(t)) = 1 /\ Cardinality(AlertsOf(t)) = 1

\* C25: the match step of an attempt reads the users and the stored
\* encodings as they are at that step: it can name an identity only if that
\* identity is then assigned to the vehicle, flagged authorized driver and
\* enrolled, whatever earlier attempts saw; and a probe equal to the stored
\* encoding of an identity that is then in the set makes the attempt
\* authenticate as a member of the set.
C25_AuthorizationSetReadEachAttempt ==
    [][\A t \in Threads :
          (pc[t] = "a_match" /\ pc'[t] = "a_user")
          => LET v == Resolve(frame[t].vehicle_id) IN
             /\ \A u \in Users :
                   (frame'[t].is_authenticated /\ frame'[t].user_id = u)
                   => u \in AuthorizationSet(v)
             /\ (\E u \in AuthorizationSet(v) :
                    encodings[u] = ExtractFaceEncoding(frame[t].image)
                    /\ frame[t].image.kind = "face")
                => /\ frame'[t].is_authenticated
                   /\ frame'[t].user_id \in AuthorizationSet(v)]_vars

\* C25 witness: an attempt with a face image has ended Unauthorized for a
\* vehicle on which an earlier attempt succeeded as a user whose encoding is
\* still stored but who is no longer in the vehicle's AuthorizationSet.
C25_Witness ==
    \E t \in AuthThreads, l \in auth_logs :
        /\ EndedUnauthorized(t) /\ frame[t].face_image
        /\ l.status = "success" /\ l.user # NoUser /\ l.vehicle = frame[t].vehicle
        /\ l.call < frame[t].call
        /\ encodings[l.user] # NoEncoding
        /\ l.user \notin AuthorizationSet(frame[t].vehicle)

\* C26: train_user_face with no image or an image without a face returns
\* False and leaves every stored encoding as it was; with a face it returns
\* True, the identity's stored encoding is the one extracted from the new
\* image, whatever was stored before, and no other identity's encoding
\* changes. No other step of the program changes a stored encoding.
C26_EnrollmentReplacesOrKeeps ==
    [][/\ \A t \in Threads :
            (pc[t] = "idle" /\ frame'[t].op = "train_user_face")
            => LET u == frame'[t].user
                   image == frame'[t].image
               IN /\ pc'[t] = "done"
                  /\ image.kind # "face"
                     => result'[t].returned = FALSE /\ encodings' = encodings
                  /\ image.kind = "face"
                     => /\ result'[t].returned = TRUE
                        /\ encodings'[u] = Encoding(EncodingSide, image.px)
                        /\ \A w \in Users \ {u} : encodings'[w] = encodings[w]
       /\ (\A t \in Threads : frame'[t].op # "train_user_face")
          => encodings' = encodings]_vars

\* C26 witness: an enrollment without a face has returned False while the
\* identity keeps a stored encoding that an earlier enrollment with a face
\* had replaced (it differs from the initial one).
C26_Witness ==
    \E t \in Threads :
        /\ pc[t] = "done" /\ frame[t].op = "train_user_face"
        /\ frame[t].image.kind # "face" /\ result[t].returned = FALSE
        /\ frame[t].user = 1 /\ encodings[1] = Encoding(EncodingSide, 60)

\* The result of a finished attempt that reached the match, from the locals
\* of the match alone.
MatchedResult(f) ==
    IF ~f.is_authenticated THEN UnauthorizedResult(f)
    ELSE IF f.authenticated_user = NoUser THEN Raised("AttributeError")
    ELSE [success |-> TRUE, message |-> "Welcome", user |-> f.authenticated_user,
          confidence |-> f.confidence, engine_enabled |-> TRUE]

\* C27: the location step always hands over to the image step and changes
\* nothing but the location local; the image step and the match decide from
\* the image, the capture flag and the AuthorizationSet alone; and when an
\* attempt that reached the match has ended, its result, the relay state, the
\* vehicle row, the lockout entry, the status of its one audit record and
\* the number of its alerts are the values fixed by the match locals and the
\* relay's answer, the same with and without a fix. The fix shows only in
\* the location field of the audit record, and an SMS is sent only with a fix.
C27_LocationNonFatal ==
    /\ [](\A t \in AuthThreads :
            (pc[t] = "done" /\ LogsOf(t) # {})
            => LET f == frame[t] IN
               /\ result[t] = MatchedResult(f)
               /\ f.relay_returned = "True" => engine_state = f.is_authenticated
               /\ engine_enabled[f.vehicle] = f.is_authenticated
               /\ ~f.is_authenticated => last_failed_auth[f.vehicle_id] # NoEntry
               /\ EndedSuccess(t) => last_failed_auth[f.vehicle_id] = NoEntry
               /\ Cardinality(LogsOf(t)) = 1
               /\ \A l \in LogsOf(t) :
                     /\ l.status = IF f.is_authenticated THEN "success" ELSE "unauthorized"
                     /\ l.location = f.current_location
               /\ Cardinality(AlertsOf(t)) = IF f.is_authenticated THEN 0 ELSE 1
               /\ SmsOf(t) # {} => f.current_location)
    /\ [][\A t \in Threads :
            /\ (pc[t] = "a_location" /\ pc'[t] # "a_location")
               => /\ pc'[t] = "a_image"
                  /\ \E fix \in BOOLEAN :
                        frame' = [frame EXCEPT ![t].current_location = fix]
                  /\ UNCHANGED <<result, engine_state, last_failed_auth, db, sms_sent>>
            /\ (pc[t] = "a_image" /\ pc'[t] # "a_image")
               => /\ pc'[t] = "a_match"
                     <=> \/ ~frame[t].capture_from_camera /\ frame[t].image # NoImage
                         \/ /\ frame[t].capture_from_camera /\ frame[t].image = NoImage
                            /\ frame'[t].image # NoImage
                  /\ frame'[t].current_location = frame[t].current_location
            /\ (pc[t] = "a_match" /\ pc'[t] # "a_match")
               => LET m == AuthenticateFace(frame[t].image, Resolve(frame[t].vehicle_id)) IN
                  /\ pc'[t] = "a_user"
                  /\ frame'[t].is_authenticated = m[1] /\ frame'[t].user_id = m[2]
                  /\ frame'[t].confidence = m[3]
                  /\ frame'[t].current_location = frame[t].current_location]_vars

\* C27 witness: two attempts on the same vehicle have both been recorded
\* Unauthorized, each with its alert, one with a fix and one without; the
\* owner was messaged for the one with the fix only.
C27_Witness ==
    \E l1, l2 \in auth_logs :
        /\ l1.vehicle = l2.vehicle /\ l1.call # l2.call
        /\ l1.status = "unauthorized" /\ l2.status = "unauthorized"
        /\ l1.location /\ ~l2.location
        /\ \E a1, a2 \in alerts : a1.call = l1.call /\ a2.call = l2.call
        /\ \E m \in sms_sent : m.call = l1.call
        /\ \A m \in sms_sent : m.call # l2.call
        /\ \E t \in AuthThreads : pc[t] = "done" /\ frame[t].call \in {l1.call, l2.call}

\* C28: the confidence of every raw distance lies in [0, 1] (0..10000 in
\* units of 1/10000), never decreases when the distance decreases, and
\* strictly increases when the distance decreases.
C28_ConfidenceStrictlyMonotone ==
    ("computed" \in DOMAIN numerics /\ numerics.computed)
    => /\ numerics.c1 \in 0..ConfidenceScale /\ numerics.c2 \in 0..ConfidenceScale
       /\ numerics.d1 < numerics.d2 => numerics.c1 >= numerics.c2
       /\ numerics.d1 < numerics.d2 => numerics.c1 > numerics.c2

\* C28 amended: the confidence lies in [0, 1] and never decreases when the
\* distance decreases; it strictly increases when the smaller distance is
\* below 10000, and two distances of 10000 or more both give confidence 0.
C28_ConfidenceMonotoneBelowScale ==
    ("computed" \in DOMAIN numerics /\ numerics.computed)
    => /\ numerics.c1 \in 0..ConfidenceScale /\ numerics.c2 \in 0..ConfidenceScale
       /\ numerics.d1 < numerics.d2 => numerics.c1 >= numerics.c2
       /\ (numerics.d1 < numerics.d2 /\ numerics.d1 < ConfidenceScale)
          => numerics.c1 > numerics.c2
       /\ (numerics.d1 >= ConfidenceScale /\ numerics.d2 >= ConfidenceScale)
          => numerics.c1 = 0 /\ numerics.c2 = 0

\* C28 witness: the confidences of a distance below 10000 and of a larger one
\* beyond 10000 have been computed; the first is positive, the second clamped.
C28_Witness ==
    /\ "computed" \in DOMAIN numerics /\ numerics.computed
    /\ 0 < numerics.d1 /\ numerics.d1 < ConfidenceScale /\ numerics.d2 > ConfidenceScale
    /\ numerics.c1 > 0 /\ numerics.c2 = 0

\* C29: the mode the controller reports, its gpio_initialized flag, tells a
\* controller that drives the pin from one that only tracks the state in
\* software: the flag is set exactly when commands reach the hardware.
C29_DegradedModeObservable ==
    gpio_initialized <=> DrivesHardware

\* C30: every AuthenticationLog with status 'success' names a user, and the
\* relay step of authenticate_driver commands Enabled only in an attempt
\* whose matched identity was resolved to a user in the AuthorizationSet of
\* the vehicle.
C30_EnableOnlyForResolvedIdentity ==
    /\ [](\A l \in auth_logs : l.status = "success" => l.user # NoUser)
    /\ [][\A t \in Threads :
            (pc[t] = "a_relay" /\ pc'[t] # "a_relay" /\ frame[t].is_authenticated)
            => /\ frame[t].authenticated_user # NoUser
               /\ frame[t].authenticated_user \in AuthorizationSet(frame[t].vehicle)]_vars

\* The audit records of a vehicle, and the state its latest attempt commanded.
LogsFor(v) == {l \in auth_logs : l.vehicle = v}
LastCommanded(v) ==
    LET latest == CHOOSE l \in LogsFor(v) : \A m \in LogsFor(v) : m.id <= l.id
    IN latest.status = "success"

\* C31: the relay step of a call for vehicle A leaves the relay state of
\* every other vehicle B as B's latest attempt commanded it: when the relay
\* state is the one last commanded for B, it still is after the step.
C31_RelayStatePerVehicle ==
    [][\A t \in Threads :
          (pc[t] \in {"a_relay", "r_relay"} /\ pc'[t] # pc[t])
          => \A B \in Vehicles \ {frame[t].vehicle} :
                (LogsFor(B) # {} /\ engine_state = LastCommanded(B))
                => engine_state' = LastCommanded(B)]_vars

\* C32: when the lockout check of an attempt runs while some key that
\* resolves to the attempt's vehicle holds an entry younger than
\* AUTHENTICATION_TIMEOUT, the attempt is rejected as locked out, whichever
\* representation of the id it carries.
C32_LockoutByVehicleNotByKey ==
    [][\A t \in Threads :
          (/\ pc[t] = "a_lockout" /\ pc'[t] # "a_lockout"
           /\ \E k \in LockoutKeys :
                 /\ Resolve(k) = Resolve(frame[t].vehicle_id)
                 /\ last_failed_auth[k] # NoEntry
                 /\ now - last_failed_auth[k] < AUTHENTICATION_TIMEOUT)
          => /\ pc'[t] = "done"
             /\ "locked_until" \in DOMAIN result'[t]]_vars

\* The Rejected outcomes of authenticate_driver, and the statements from
\* which they are returned.
RejectionMessages ==
    InputErrorMessages \cup {"Authentication temporarily locked. Please wait."}
Rejected(res) ==
    "success" \in DOMAIN res /\ ~res.success /\ res.message \in RejectionMessages
BeforeMatch == {"a_get_vehicle", "a_lockout", "a_location", "a_image"}

\* C33: a Rejected result is returned only from the statements before the
\* match; the start of a call and each of those statements leave the relay
\* state, every vehicle row, the whole lockout map, the audit, event and alert
\* records and the messages sent as they were; and a call that has ended
\* Rejected has commanded no relay and owns no record and no message.
C33_RejectedChangesNothing ==
    /\ [](\A t \in AuthThreads :
            (pc[t] = "done" /\ Rejected(result[t]))
            => /\ RecordsOfCall(frame[t].call) = {} /\ SmsOf(t) = {}
               /\ frame[t].relay_returned = "none")
    /\ [][\A t \in Threads :
            /\ (pc[t] # "done" /\ pc'[t] = "done" /\ frame'[t].op = "authenticate_driver"
                /\ Rejected(result'[t]))
               => pc[t] \in BeforeMatch
            /\ (pc'[t] # pc[t] /\ frame'[t].op = "authenticate_driver"
                /\ pc[t] \in BeforeMatch \cup {"idle"})
               => UNCHANGED <<engine_state, last_failed_auth, db, sms_sent>>]_vars

\* C33 witness: a call has ended Rejected for an unknown vehicle while the
\* relay is Enabled and an earlier attempt's audit record exists.
C33_Witness ==
    \E t \in AuthThreads :
        /\ pc[t] = "done" /\ Rejected(result[t])
        /\ result[t].message = "Vehicle not found"
        /\ engine_state /\ auth_logs # {}

\* C34: when the SMS step of authenticate_driver hands the unauthorized-access
\* message to the gateway, the relay controller's engine state is Disabled.
C34_SmsOnlyWhenDisabled ==
    [][\A t \in Threads :
          (pc[t] = "a_sms" /\ sms_sent' # sms_sent) => ~engine_state]_vars

\* Rows by status or type.
LogsWithStatus(status) == {l \in auth_logs : l.status = status}
EventsOfType(type) == {e \in events : e.event_type = type}
AlertsOfType(type) == {a \in alerts : a.alert_type = type}

\* C35: whenever no call is in progress, there are as many 'unauthorized'
\* audit records as 'unauthorized_access' alerts and as 'unauthorized_access'
\* events, and as many 'success' audit records as 'auth_success' events.
C35_RecordCountsAgree ==
    (\A t \in Threads : pc[t] \in {"idle", "done"})
    => /\ Cardinality(LogsWithStatus("unauthorized"))
            = Cardinality(AlertsOfType("unauthorized_access"))
       /\ Cardinality(LogsWithStatus("unauthorized"))
            = Cardinality(EventsOfType("unauthorized_access"))
       /\ Cardinality(LogsWithStatus("success"))
            = Cardinality(EventsOfType("auth_success"))

\* The largest tick of the clock, and the lockout times from which the clock
\* can still run past the end of the window.
LongestTick == CHOOSE d \in TickSteps : \A e \in TickSteps : e <= d
ExpiringTimes == {l \in 0..MaxExpiryTime : l + 2 * LongestTick <= MaxExpiryTime}

\* C36: a lockout check that runs AUTHENTICATION_TIMEOUT seconds or more
\* after the entry of the id was set lets the attempt pass, the boundary
\* included; and with the clock advancing, an id that is locked out stops
\* being locked out, unless an Unauthorized outcome has set its entry too
\* late for the clock to run past the end of the window.
C36_LockoutExpires ==
    /\ [][\A t \in Threads :
            (/\ pc[t] = "a_lockout" /\ pc'[t] # "a_lockout"
             /\ last_failed_auth[frame[t].vehicle_id] # NoEntry
             /\ now - last_failed_auth[frame[t].vehicle_id] >= AUTHENTICATION_TIMEOUT)
            => pc'[t] = "a_location"]_vars
    /\ \A k \in RequestIds :
          IsLockedOut(k) ~> (~IsLockedOut(k) \/ last_failed_auth[k] \notin ExpiringTimes)

\* C36 witness: the third call has passed the lockout check exactly
\* AUTHENTICATION_TIMEOUT seconds after the vehicle's Unauthorized outcome,
\* whose entry is still in the map, the call in between having left no record.
C36_Witness ==
    \E t \in AuthThreads :
        /\ pc[t] = "a_location" /\ frame[t].call = 3
        /\ last_failed_auth[frame[t].vehicle_id] # NoEntry
        /\ now - last_failed_auth[frame[t].vehicle_id] = AUTHENTICATION_TIMEOUT
        /\ \A r \in auth_logs : r.call = 1 /\ r.status = "unauthorized"
                                  /\ r.vehicle = frame[t].vehicle
        /\ auth_logs # {}

\* C37: no step of an authenticate_driver call changes the lockout entry of
\* an id other than the one the call carries, and the lockout check rejects
\* a call only on the entry of its own id.
C37_LockoutPerVehicle ==
    [][\A t \in Threads :
          (pc'[t] # pc[t] /\ frame'[t].op = "authenticate_driver")
          => /\ \A k \in LockoutKeys \ {frame'[t].vehicle_id} :
                   last_failed_auth'[k] = last_failed_auth[k]
             /\ (pc[t] = "a_lockout" /\ pc'[t] = "done")
                => /\ last_failed_auth[frame[t].vehicle_id] # NoEntry
                   /\ now - last_failed_auth[frame[t].vehicle_id] < AUTHENTICATION_TIMEOUT]_vars

\* C37 witness: an attempt on one vehicle has passed the lockout check while
\* another vehicle is locked out.
C37_Witness ==
    \E t \in AuthThreads, k \in RequestIds :
        /\ pc[t] = "a_location"
        /\ Resolve(k) # NoVehicle /\ Resolve(k) # frame[t].vehicle
        /\ IsLockedOut(k)

\* The attempts whose match named an identity with enough confidence and
\* whose lookup of that identity found no user.
MatchedButDeleted ==
    {t \in AuthThreads : /\ frame[t].user_id # NoUser
                          /\ MeetsThreshold(frame[t].confidence)
                          /\ frame[t].authenticated_user = NoUser
                          /\ ~frame[t].is_authenticated
                          /\ pc[t] \notin {"a_get_vehicle", "a_lockout", "a_location",
                                           "a_image", "a_match", "a_user"}}

\* C38: an attempt whose matched identity was gone at the lookup ends
\* Unauthorized: the result reports failure with an alert, its one audit
\* record has status 'unauthorized' and no user, the relay is Disabled, the
\* vehicle row says engine_enabled False, the lockout entry of the id is set
\* and the call has one alert.
C38_DeletedIdentityIsUnauthorized ==
    \A t \in MatchedButDeleted :
        pc[t] = "done"
        => /\ EndedUnauthorized(t) /\ ~result[t].success
           /\ \A l \in LogsOf(t) : l.status = "unauthorized" /\ l.user = NoUser
           /\ Cardinality(LogsOf(t)) = 1
           /\ ~engine_state
           /\ ~engine_enabled[frame[t].vehicle]
           /\ last_failed_auth[frame[t].vehicle_id] # NoEntry
           /\ Cardinality(AlertsOf(t)) = 1

\* The candidates the loop compares for a vehicle: those of the loaded
\* encodings that have the probe's dimension; and the place of a loaded user
\* in the order of the loop.
Comparable(v) == {u \in LoadAuthorizedEncodings(v) : encodings[u].side = EncodingSide}
Place(u, v) ==
    LET order == QueryOrder(LoadAuthorizedEncodings(v))
    IN CHOOSE i \in 1..Len(order) : order[i] = u

\* C39: the match of a face image against a non-empty set of loaded
\* encodings names no one when none has the probe's dimension; otherwise it
\* names a candidate of the probe's dimension whose distance no other such
\* candidate undercuts, the earliest in the loop among those at that distance,
\* and the confidence is the normalization of that distance. The step never
\* ends the call.
C39_MinimumDistanceFirstOnTies ==
    [][\A t \in Threads :
          (/\ pc[t] = "a_match" /\ pc'[t] # "a_match"
           /\ frame[t].image.kind = "face"
           /\ LoadAuthorizedEncodings(Resolve(frame[t].vehicle_id)) # {})
          => LET v == Resolve(frame[t].vehicle_id)
                 px == frame[t].image.px
                 m == frame'[t].user_id
             IN /\ pc'[t] = "a_user"
                /\ Comparable(v) = {} => m = NoUser /\ frame'[t].confidence = 0
                /\ Comparable(v) # {}
                   => /\ m \in Comparable(v)
                      /\ \A w \in Comparable(v) :
                            /\ Distance(px, encodings[m]) <= Distance(px, encodings[w])
                            /\ Distance(px, encodings[m]) = Distance(px, encodings[w])
                               => Place(m, v) <= Place(w, v)
                      /\ frame'[t].confidence
                            = NormalizedConfidence(Distance(px, encodings[m]))]_vars

\* C39 witness: after the match of an attempt on a vehicle with two
\* candidates of the probe's dimension at the same distance, the one met
\* first in the loop is named.
C39_Witness ==
    \E t \in AuthThreads :
        /\ pc[t] = "a_user"
        /\ Comparable(frame[t].vehicle) = Users
        /\ encodings[1] = encodings[2]
        /\ frame[t].user_id = QueryOrder(Users)[1]

====
